---- MODULE Spec2Model ----
(***************************************************************************)
(* SubSentry: the subscription detection and normalisation pipeline.      *)
(* Strings are TLA+ strings; a character is a string of length one.       *)
(* null / undefined of the TypeScript source are the model value NULL.    *)
(***************************************************************************)
EXTENDS Integers, Sequences, FiniteSets, TLC

\* null / undefined of a string- or object-typed value
NULL == "<null>"

\* ------------------------------------------------------------------------
\* String primitives (JavaScript String methods used by the source)
\* ------------------------------------------------------------------------
UpperChars == "ABCDEFGHIJKLMNOPQRSTUVWXYZ"
LowerChars == "abcdefghijklmnopqrstuvwxyz"
DigitChars == "0123456789"

charAt(s, i) == SubSeq(s, i, i)

RECURSIVE indexIn(_, _, _)
\* 1-based position of character c in alphabet from position i on, 0 if absent
indexIn(alphabet, c, i) ==
    IF i > Len(alphabet) THEN 0
    ELSE IF charAt(alphabet, i) = c THEN i
    ELSE indexIn(alphabet, c, i + 1)

lowerCh(c) ==
    LET k == indexIn(UpperChars, c, 1)
    IN  IF k = 0 THEN c ELSE charAt(LowerChars, k)

upperCh(c) ==
    LET k == indexIn(LowerChars, c, 1)
    IN  IF k = 0 THEN c ELSE charAt(UpperChars, k)

RECURSIVE toLowerCase(_)
\* character by character, the string split in halves
toLowerCase(s) ==
    IF s = "" THEN ""
    ELSE IF Len(s) = 1 THEN lowerCh(s)
    ELSE toLowerCase(SubSeq(s, 1, Len(s) \div 2))
            \o toLowerCase(SubSeq(s, (Len(s) \div 2) + 1, Len(s)))

isSpace(c) == c = " "
isDigit(c) == indexIn(DigitChars, c, 1) # 0
\* \w of a JavaScript regular expression: [A-Za-z0-9_]
isWord(c) ==
    \/ indexIn(UpperChars, c, 1) # 0
    \/ indexIn(LowerChars, c, 1) # 0
    \/ isDigit(c)
    \/ c = "_"

RECURSIVE stripWhitespace(_)
\* s.replace(/\s+/g, '')
stripWhitespace(s) ==
    IF s = "" THEN ""
    ELSE IF isSpace(charAt(s, 1)) THEN stripWhitespace(Tail(s))
    ELSE charAt(s, 1) \o stripWhitespace(Tail(s))

RECURSIVE trimStart(_)
trimStart(s) ==
    IF s # "" /\ isSpace(charAt(s, 1)) THEN trimStart(Tail(s)) ELSE s

RECURSIVE trimEnd(_)
trimEnd(s) ==
    IF s # "" /\ isSpace(charAt(s, Len(s)))
    THEN trimEnd(SubSeq(s, 1, Len(s) - 1)) ELSE s

trim(s) == trimEnd(trimStart(s))

startsWithAt(s, p, i) ==
    /\ i + Len(p) - 1 <= Len(s)
    /\ SubSeq(s, i, i + Len(p) - 1) = p

\* 1-based position of the first occurrence of p in s at or after i, 0 if none
indexOfFrom(s, p, i) ==
    LET hits == { k \in i..Len(s) : startsWithAt(s, p, k) }
    IN  IF hits = {} THEN 0 ELSE CHOOSE k \in hits : \A j \in hits : k <= j

includes(s, p) == indexOfFrom(s, p, 1) # 0

\* a literal pattern tested with the /i flag
testIgnoreCase(s, p) == includes(toLowerCase(s), p)

\* JavaScript truthiness of a string-or-null value
truthy(v) == v # NULL /\ v # ""

\* null of a number-typed field (amount, seats); the numbers these fields hold
\* are never -0.01
NULLNUM == 0 - 1

\* NaN of a number-typed field
NAN == 0 - 2

\* a test that takes every number, 0 included, as present
notNullNum(n) == n # NULLNUM

\* JavaScript truthiness of a number-or-null value: null and 0 are falsy
truthyNum(n) == n # NULLNUM /\ n # NAN /\ n # 0

\* ------------------------------------------------------------------------
\* Static tables
\* ------------------------------------------------------------------------
\* KNOWN_SAAS_DOMAINS of subscription-extraction.ts, in Object.entries order,
\* restricted to the entries whose domain or name occurs in the model's inputs.
KNOWN_SAAS_DOMAINS ==
    << [domain |-> "slack.com",  name |-> "Slack",  category |-> "Communication"],
       [domain |-> "notion.so",  name |-> "Notion", category |-> "Productivity"],
       [domain |-> "github.com", name |-> "GitHub", category |-> "DevOps"],
       [domain |-> "figma.com",  name |-> "Figma",  category |-> "Design"],
       [domain |-> "zoom.us",    name |-> "Zoom",   category |-> "Communication"] >>

\* SAAS_PATTERNS of saas-vendors.ts, in array order, restricted to literal
\* patterns; every pattern carries the /i flag.
SAAS_PATTERNS ==
    << [pattern |-> "slack",  name |-> "Slack",           category |-> "Communication"],
       [pattern |-> "zoom",   name |-> "Zoom",            category |-> "Communication"],
       [pattern |-> "teams",  name |-> "Microsoft Teams", category |-> "Communication"],
       [pattern |-> "notion", name |-> "Notion",          category |-> "Productivity"],
       [pattern |-> "figma",  name |-> "Figma",           category |-> "Design"],
       [pattern |-> "github", name |-> "GitHub",          category |-> "DevOps"] >>

GENERIC_EMAIL_DOMAINS ==
    { "gmail.com", "yahoo.com", "hotmail.com", "outlook.com",
      "aol.com", "icloud.com", "mail.com", "protonmail.com" }

\* null of a record-typed value (a table entry, an ExtractedSubscription)
NULLREC == [isNull |-> TRUE]

RECURSIVE firstPattern(_, _)
\* low: the description in lower case
firstPattern(low, i) ==
    IF i > Len(SAAS_PATTERNS) THEN NULLREC
    ELSE IF includes(low, SAAS_PATTERNS[i].pattern) THEN SAAS_PATTERNS[i]
    ELSE firstPattern(low, i + 1)

\* first pattern of the registry that matches, or null
detectSaaSVendor(description) == firstPattern(toLowerCase(description), 1)

\* KNOWN_SAAS_DOMAINS[domain], or undefined
knownDomain(domain) ==
    IF \E i \in DOMAIN KNOWN_SAAS_DOMAINS : KNOWN_SAAS_DOMAINS[i].domain = domain
    THEN KNOWN_SAAS_DOMAINS[CHOOSE i \in DOMAIN KNOWN_SAAS_DOMAINS :
                               KNOWN_SAAS_DOMAINS[i].domain = domain]
    ELSE NULLREC

RECURSIVE knownByName(_, _)
\* the loop over Object.entries(KNOWN_SAAS_DOMAINS): first entry whose
\* lower-cased name equals normalizedName
knownByName(normalizedName, i) ==
    IF i > Len(KNOWN_SAAS_DOMAINS) THEN NULLREC
    ELSE IF toLowerCase(KNOWN_SAAS_DOMAINS[i].name) = normalizedName
         THEN KNOWN_SAAS_DOMAINS[i]
    ELSE knownByName(normalizedName, i + 1)

\* senderDomain.split('.')[0]
firstLabel(domain) ==
    LET k == indexOfFrom(domain, ".", 1)
    IN  IF k = 0 THEN domain ELSE SubSeq(domain, 1, k - 1)

capitalize(s) == IF s = "" THEN "" ELSE upperCh(charAt(s, 1)) \o Tail(s)

\* resolveVendorName with the last two sources swapped: the sender domain's
\* first label is preferred to the registry match on the subject
resolveDomainLabelFirst(llmVendorName, senderDomain, subject) ==
    LET known == knownDomain(senderDomain)
        detected == detectSaaSVendor(subject)
    IN  IF truthy(llmVendorName) /\ Len(trim(llmVendorName)) > 0
        THEN [name |-> llmVendorName, category |-> NULL]
        ELSE IF truthy(senderDomain) /\ known # NULLREC
        THEN [name |-> known.name, category |-> known.category]
        ELSE IF truthy(senderDomain)
        THEN [name |-> capitalize(firstLabel(senderDomain)), category |-> NULL]
        ELSE IF truthy(subject) /\ detected # NULLREC
        THEN [name |-> detected.name, category |-> detected.category]
        ELSE [name |-> "Unknown", category |-> NULL]

\* resolveVendorName with the known-domain table overriding the extracted name
resolveTableOverrides(llmVendorName, senderDomain, subject) ==
    LET known == knownDomain(senderDomain)
        detected == detectSaaSVendor(subject)
    IN  IF truthy(senderDomain) /\ known # NULLREC
        THEN [name |-> known.name, category |-> known.category]
        ELSE IF truthy(llmVendorName) /\ Len(trim(llmVendorName)) > 0
        THEN [name |-> llmVendorName, category |-> NULL]
        ELSE IF truthy(subject) /\ detected # NULLREC
        THEN [name |-> detected.name, category |-> detected.category]
        ELSE IF truthy(senderDomain)
        THEN [name |-> capitalize(firstLabel(senderDomain)), category |-> NULL]
        ELSE [name |-> "Unknown", category |-> NULL]

resolveVendorName(llmVendorName, senderDomain, subject) ==
    LET vendor == knownByName(toLowerCase(llmVendorName), 1)
        known == knownDomain(senderDomain)
        detected == detectSaaSVendor(subject)
    IN  IF truthy(llmVendorName) /\ Len(trim(llmVendorName)) > 0
        THEN IF vendor # NULLREC
             THEN [name |-> vendor.name, category |-> vendor.category]
             ELSE [name |-> llmVendorName, category |-> NULL]
        ELSE IF truthy(senderDomain) /\ known # NULLREC
        THEN [name |-> known.name, category |-> known.category]
        ELSE IF truthy(subject) /\ detected # NULLREC
        THEN [name |-> detected.name, category |-> detected.category]
        ELSE IF truthy(senderDomain)
        THEN [name |-> capitalize(firstLabel(senderDomain)), category |-> NULL]
        ELSE [name |-> "Unknown", category |-> NULL]

getVendorCategory(domain) ==
    IF ~truthy(domain) \/ knownDomain(domain) = NULLREC THEN NULL
    ELSE knownDomain(domain).category

\* vendorName.toLowerCase().replace(/\s+/g, ''): the key of the e-mail and
\* manual channels
vendorKey(name) == stripWhitespace(toLowerCase(name))

RECURSIVE stripSpecial(_)
\* s.replace(/[^\w\s]/g, '')
stripSpecial(s) ==
    IF s = "" THEN ""
    ELSE IF isWord(charAt(s, 1)) \/ isSpace(charAt(s, 1))
         THEN charAt(s, 1) \o stripSpecial(Tail(s))
    ELSE stripSpecial(Tail(s))

RECURSIVE collapseWhitespace(_)
\* s.replace(/\s+/g, ' ')
collapseWhitespace(s) ==
    IF s = "" THEN ""
    ELSE IF isSpace(charAt(s, 1))
         THEN " " \o collapseWhitespace(trimStart(s))
    ELSE charAt(s, 1) \o collapseWhitespace(Tail(s))

normalizeVendorName(name) ==
    collapseWhitespace(stripSpecial(trim(toLowerCase(name))))

\* ------------------------------------------------------------------------
\* Regular-expression primitives.  A character class is the string of its
\* characters; quantifiers are greedy unless said otherwise.
\* ------------------------------------------------------------------------
ALPHA == UpperChars \o LowerChars
ALNUM == ALPHA \o DigitChars
WORD == ALNUM \o "_"
SPACE == " "

inClass(c, class) == indexIn(class, c, 1) # 0

RECURSIVE skip(_, _, _)
\* position after the longest run of class characters of s that starts at i
skip(s, i, class) ==
    IF i <= Len(s) /\ inClass(charAt(s, i), class) THEN skip(s, i + 1, class) ELSE i

minOf(S) == CHOOSE x \in S : \A y \in S : x <= y

RECURSIVE parseIntFrom(_, _, _)
parseIntFrom(s, i, acc) ==
    IF i > Len(s) \/ ~isDigit(charAt(s, i)) THEN acc
    ELSE parseIntFrom(s, i + 1, acc * 10 + (indexIn(DigitChars, charAt(s, i), 1) - 1))

\* parseInt(s, 10) of a string of digits
parseInt(s) == parseIntFrom(s, 1, 0)

\* s.replace(',', ''): the first comma only
removeFirstComma(s) ==
    LET k == indexOfFrom(s, ",", 1)
    IN  IF k = 0 THEN s ELSE SubSeq(s, 1, k - 1) \o SubSeq(s, k + 1, Len(s))

\* the unsigned decimal at the start of s, in hundredths (an amount of 120.00
\* is 12000): leading digits, then '.' and digits; NAN when there is none
strDecimalLiteral(s) ==
    LET e == skip(s, 1, DigitChars)
        f == IF e <= Len(s) /\ charAt(s, e) = "." THEN skip(s, e + 1, DigitChars) ELSE e
        frac == IF f > e THEN SubSeq(s, e + 1, f - 1) ELSE ""
        cents == parseInt(SubSeq(frac \o "00", 1, 2))
    IN  IF e = 1 /\ f <= e + 1 THEN NAN
        ELSE parseInt(SubSeq(s, 1, e - 1)) * 100 + cents

\* parseFloat(s) in hundredths: an optional sign, then the decimal; whatever
\* follows is ignored. No call of the program passes an exponent.
parseFloat(s) ==
    CHOOSE r \in
      { IF magnitude = NAN THEN NAN
        ELSE IF charAt(s, 1) = "-" THEN 0 - magnitude
        ELSE magnitude :
        magnitude \in { strDecimalLiteral(IF s # "" /\ charAt(s, 1) \in { "-", "+" }
                                          THEN Tail(s) ELSE s) } } : TRUE

\* /^(\w+)\s+(?:Billing|Subscription|Plan|Renewal)/i on the subject: match[1]
matchSubjectVendor(subject) ==
    LET low == toLowerCase(subject)
        e == skip(subject, 1, WORD)
        k == skip(subject, e, SPACE)
    IN  IF /\ e > 1
           /\ k > e
           /\ \E w \in {"billing", "subscription", "plan", "renewal"} :
                  startsWithAt(low, w, k)
        THEN SubSeq(subject, 1, e - 1)
        ELSE NULL

\* the lazy capture ([class]+?)\s+(?:terms) that starts at k: match[1] or null
lazyCapture(text, low, k, class, terms) ==
    LET limit == skip(text, k, class)
        ends == { e \in (k + 1)..(limit - 1) :
                    /\ isSpace(charAt(text, e))
                    /\ \E w \in terms : startsWithAt(low, w, skip(text, e, SPACE)) }
    IN  IF ends = {} THEN NULL ELSE SubSeq(text, k, minOf(ends) - 1)

\* /Plan[:\s]+([A-Za-z0-9]+(?:\s+[A-Za-z0-9]+)?)\s+Seats/i tried at position i
planSeatsAt(text, low, i) ==
    LET k == skip(text, i + 4, ": ")
        w1 == skip(text, k, ALNUM)
        g == skip(text, w1, SPACE)
        w2 == skip(text, g, ALNUM)
        h == skip(text, w2, SPACE)
    IN  IF ~(startsWithAt(low, "plan", i) /\ k > i + 4 /\ w1 > k /\ g > w1) THEN NULL
        ELSE IF w2 > g /\ h > w2 /\ startsWithAt(low, "seats", h)
             THEN SubSeq(text, k, w2 - 1)
        ELSE IF startsWithAt(low, "seats", g) THEN SubSeq(text, k, w1 - 1)
        ELSE NULL

\* /Plan[:\s]+([A-Za-z0-9\s]+?)\s+Billing/i tried at position i
planBillingAt(text, low, i) ==
    LET k == skip(text, i + 4, ": ")
    IN  IF startsWithAt(low, "plan", i) /\ k > i + 4
        THEN lazyCapture(text, low, k, ALNUM \o SPACE, {"billing"})
        ELSE NULL

\* /your\s+([A-Za-z0-9\s]+?)\s+(?:subscription|plan)/i tried at position i
yourPlanAt(text, low, i) ==
    LET k == skip(text, i + 4, SPACE)
    IN  IF startsWithAt(low, "your", i) /\ k > i + 4
        THEN lazyCapture(text, low, k, ALNUM \o SPACE, {"subscription", "plan"})
        ELSE NULL

\* planPatterns: the first pattern that matches the body, leftmost match
matchPlan(bodyText) ==
    LET low == toLowerCase(bodyText)
        p1 == { i \in 1..Len(bodyText) : planSeatsAt(bodyText, low, i) # NULL }
        p2 == { i \in 1..Len(bodyText) : planBillingAt(bodyText, low, i) # NULL }
        p3 == { i \in 1..Len(bodyText) : yourPlanAt(bodyText, low, i) # NULL }
    IN  IF p1 # {} THEN trim(planSeatsAt(bodyText, low, minOf(p1)))
        ELSE IF p2 # {} THEN trim(planBillingAt(bodyText, low, minOf(p2)))
        ELSE IF p3 # {} THEN trim(yourPlanAt(bodyText, low, minOf(p3)))
        ELSE NULL

\* /Seats[:\s]+(\d+)/i tried at position i: match[1]
seatsAt(text, low, i) ==
    LET k == skip(text, i + 5, ": ")
        e == skip(text, k, DigitChars)
    IN  IF startsWithAt(low, "seats", i) /\ k > i + 5 /\ e > k
        THEN SubSeq(text, k, e - 1)
        ELSE NULL

matchSeats(text) ==
    LET low == toLowerCase(text)
        hits == { i \in 1..Len(text) : seatsAt(text, low, i) # NULL }
    IN  IF hits = {} THEN NULLNUM ELSE parseInt(seatsAt(text, low, minOf(hits)))

\* the billing-cycle tests of extractWithRegex
matchBillingCycle(text) ==
    IF \E t \in {"monthly", "per month", "/month"} : testIgnoreCase(text, t)
    THEN "monthly"
    ELSE IF \E t \in {"yearly", "annual", "per year", "/year"} : testIgnoreCase(text, t)
    THEN "yearly"
    ELSE NULL

\* [\d,]+\.?\d* tried at position i: the position after it, i if it fails
numberEnd(text, i) ==
    LET e == skip(text, i, DigitChars \o ",")
    IN  IF e = i THEN i
        ELSE IF e <= Len(text) /\ charAt(text, e) = "." THEN skip(text, e + 1, DigitChars)
        ELSE e

\* the currency code among codes that stands at position i, ignoring case
currencyAt(low, i, codes) ==
    IF \E c \in codes : startsWithAt(low, toLowerCase(c), i)
    THEN CHOOSE c \in codes : startsWithAt(low, toLowerCase(c), i)
    ELSE NULL

amountMatch(text, low, from, to, codes) ==
    [ number |-> SubSeq(text, from, to - 1),
      code |-> currencyAt(low, skip(text, to, SPACE), codes) ]

\* /Amount[:\s]+\$?([\d,]+\.?\d*)\s*(USD|EUR|GBP|INR)?/i tried at position i
amountLabelAt(text, low, i) ==
    LET k == skip(text, i + 6, ": ")
        n == IF k <= Len(text) /\ charAt(text, k) = "$" THEN k + 1 ELSE k
        e == numberEnd(text, n)
    IN  IF startsWithAt(low, "amount", i) /\ k > i + 6 /\ e > n
        THEN amountMatch(text, low, n, e, {"USD", "EUR", "GBP", "INR"})
        ELSE NULLREC

\* /\$([\d,]+\.?\d*)\s*(USD)?/i tried at position i
amountDollarAt(text, low, i) ==
    LET e == numberEnd(text, i + 1)
    IN  IF charAt(text, i) = "$" /\ e > i + 1
        THEN amountMatch(text, low, i + 1, e, {"USD"})
        ELSE NULLREC

\* /([\d,]+\.?\d*)\s*(USD|EUR|GBP|INR)/i tried at position i
amountCodeAt(text, low, i) ==
    LET e == numberEnd(text, i)
        m == amountMatch(text, low, i, e, {"USD", "EUR", "GBP", "INR"})
    IN  IF e > i /\ m.code # NULL THEN m ELSE NULLREC

\* amountPatterns: the first pattern that matches the text, leftmost match,
\* as number (match[1]) and code (match[2] or null); NULLREC when none matches
amountPatternMatch(text) ==
    LET low == toLowerCase(text)
        a1 == { i \in 1..Len(text) : amountLabelAt(text, low, i) # NULLREC }
        a2 == { i \in 1..Len(text) : amountDollarAt(text, low, i) # NULLREC }
        a3 == { i \in 1..Len(text) : amountCodeAt(text, low, i) # NULLREC }
    IN  IF a1 # {} THEN amountLabelAt(text, low, minOf(a1))
        ELSE IF a2 # {} THEN amountDollarAt(text, low, minOf(a2))
        ELSE IF a3 # {} THEN amountCodeAt(text, low, minOf(a3))
        ELSE NULLREC

\* amount is parseFloat(match[1].replace(',', '')), currency match[2] or USD
matchAmount(text) ==
    LET m == amountPatternMatch(text)
    IN  IF m = NULLREC THEN [amount |-> NULLNUM, currency |-> NULL]
        ELSE [ amount |-> parseFloat(removeFirstComma(m.number)),
               currency |-> IF m.code # NULL THEN m.code ELSE "USD" ]

\* ------------------------------------------------------------------------
\* Dates.  A Date value is the ISO day "YYYY-MM-DD" of its UTC instant, the
\* string toISOString().split('T')[0] gives; an invalid Date is NULL.
\* ------------------------------------------------------------------------
MONTH_PREFIXES ==
    << "jan", "feb", "mar", "apr", "may", "jun",
       "jul", "aug", "sep", "oct", "nov", "dec" >>

MONTH_NAMES ==
    << "january", "february", "march", "april", "may", "june", "july",
       "august", "september", "october", "november", "december" >>

isLeapYear(y) == (y % 4 = 0 /\ y % 100 # 0) \/ y % 400 = 0

daysInMonth(y, m) ==
    IF m = 2 THEN (IF isLeapYear(y) THEN 29 ELSE 28)
    ELSE IF m \in {4, 6, 9, 11} THEN 30 ELSE 31

pad2(n) == charAt(DigitChars, (n \div 10) + 1) \o charAt(DigitChars, (n % 10) + 1)

pad4(n) == pad2(n \div 100) \o pad2(n % 100)

isoDay(y, m, d) == pad4(y) \o "-" \o pad2(m) \o "-" \o pad2(d)

\* the calendar day of year y, month m, day d in 1..31, days past the end of
\* the month carried into the next month as the Date constructor carries them
carryDay(y, m, d) ==
    IF d <= daysInMonth(y, m) THEN [y |-> y, m |-> m, d |-> d]
    ELSE IF m = 12 THEN [y |-> y + 1, m |-> 1, d |-> d - daysInMonth(y, m)]
    ELSE [y |-> y, m |-> m + 1, d |-> d - daysInMonth(y, m)]

previousDay(t) ==
    IF t.d > 1 THEN [t EXCEPT !.d = t.d - 1]
    ELSE IF t.m > 1 THEN [y |-> t.y, m |-> t.m - 1, d |-> daysInMonth(t.y, t.m - 1)]
    ELSE [y |-> t.y - 1, m |-> 12, d |-> 31]

\* the month a word names for the Date parser: its first three letters
monthOfWord(word) ==
    LET pre == toLowerCase(SubSeq(word, 1, 3))
    IN  IF Len(word) >= 3 /\ \E m \in 1..12 : MONTH_PREFIXES[m] = pre
        THEN CHOOSE m \in 1..12 : MONTH_PREFIXES[m] = pre
        ELSE 0

\* two-digit years of the Date parser
fullYear(y) == IF y < 50 THEN 2000 + y ELSE IF y < 100 THEN 1900 + y ELSE y

\* \s+\d{1,2},?\s+\d{4} tried at position w: the position after it, w if
\* it fails
dayYearEnd(text, w) ==
    LET g == skip(text, w, SPACE)
        d == skip(text, g, DigitChars)
        c == IF d <= Len(text) /\ charAt(text, d) = "," THEN d + 1 ELSE d
        h == skip(text, c, SPACE)
        y == skip(text, h, DigitChars)
    IN  IF g > w /\ d > g /\ d - g <= 2 /\ h > c /\ y - h >= 4
        THEN h + 4 ELSE w

\* [A-Za-z]+\s+\d{1,2},?\s+\d{4} tried at position k: the position after it,
\* k if it fails
dateTextEnd(text, k) ==
    LET w == skip(text, k, ALPHA)
    IN  IF w > k /\ dayYearEnd(text, w) > w THEN dayYearEnd(text, w) ELSE k

\* new Date(s) of a string "<word> <day>[,] <year>", read in local time, then
\* toISOString().split('T')[0]; tzEast: the server's zone is east of UTC
parseLongDate(s, tzEast) ==
    LET w == skip(s, 1, ALPHA)
        g == skip(s, w, SPACE)
        d == skip(s, g, DigitChars)
        c == IF d <= Len(s) /\ charAt(s, d) = "," THEN d + 1 ELSE d
        h == skip(s, c, SPACE)
        month == monthOfWord(SubSeq(s, 1, w - 1))
        day == parseInt(SubSeq(s, g, d - 1))
        year == fullYear(parseInt(SubSeq(s, h, Len(s))))
        local == carryDay(year, month, day)
        utc == IF tzEast THEN previousDay(local) ELSE local
    IN  IF dateTextEnd(s, 1) # Len(s) + 1 \/ month = 0 \/ day < 1 \/ day > 31
        THEN NULL
        ELSE isoDay(utc.y, utc.m, utc.d)

\* new Date(s) of a string "YYYY-MM-DD", read as UTC
parseIsoDate(s) ==
    LET y == parseInt(SubSeq(s, 1, 4))
        m == parseInt(SubSeq(s, 6, 7))
        d == parseInt(SubSeq(s, 9, 10))
        t == carryDay(y, m, d)
    IN  IF /\ Len(s) = 10
           /\ \A i \in {1, 2, 3, 4, 6, 7, 9, 10} : isDigit(charAt(s, i))
           /\ charAt(s, 5) = "-" /\ charAt(s, 8) = "-"
           /\ m \in 1..12 /\ d \in 1..31
        THEN isoDay(t.y, t.m, t.d)
        ELSE NULL

\* new Date(s) of a string "YYYY-MM-DDTHH:MM:SSZ": its UTC day
parseIsoDateTime(s) ==
    IF /\ Len(s) = 20
       /\ charAt(s, 11) = "T" /\ charAt(s, 14) = ":" /\ charAt(s, 17) = ":"
       /\ charAt(s, 20) = "Z"
       /\ \A i \in {12, 13, 15, 16, 18, 19} : isDigit(charAt(s, i))
       /\ parseInt(SubSeq(s, 12, 13)) < 24
       /\ parseInt(SubSeq(s, 15, 16)) < 60
       /\ parseInt(SubSeq(s, 18, 19)) < 60
    THEN parseIsoDate(SubSeq(s, 1, 10))
    ELSE NULL

\* the three numbers of a string M/D/YYYY with one or two digits for month and
\* day and four for the year, NULLREC for any other string
slashParts(s) ==
    LET a == skip(s, 1, DigitChars)
        b == skip(s, a + 1, DigitChars)
        c == skip(s, b + 1, DigitChars)
    IN  IF /\ a \in 2..3 /\ a <= Len(s) /\ charAt(s, a) = "/"
           /\ b - a \in 2..3 /\ b <= Len(s) /\ charAt(s, b) = "/"
           /\ c - b = 5 /\ c = Len(s) + 1
        THEN [m |-> parseInt(SubSeq(s, 1, a - 1)),
              d |-> parseInt(SubSeq(s, a + 1, b - 1)),
              y |-> parseInt(SubSeq(s, b + 1, Len(s)))]
        ELSE NULLREC

\* new Date(s) of a string M/D/YYYY, read in local time
parseSlashDate(s, tzEast) ==
    LET p == slashParts(s)
        local == carryDay(p.y, p.m, p.d)
        utc == IF tzEast THEN previousDay(local) ELSE local
    IN  IF p = NULLREC \/ p.m \notin 1..12 \/ p.d \notin 1..31 THEN NULL
        ELSE isoDay(utc.y, utc.m, utc.d)

\* new Date(s): the ISO forms, else the long form, else the slash form, else
\* invalid
newDate(s, tzEast) ==
    IF parseIsoDate(s) # NULL THEN parseIsoDate(s)
    ELSE IF parseIsoDateTime(s) # NULL THEN parseIsoDateTime(s)
    ELSE IF parseLongDate(s, tzEast) # NULL THEN parseLongDate(s, tzEast)
    ELSE parseSlashDate(s, tzEast)

\* /Renewal\s+date[:\s]+([A-Za-z]+\s+\d{1,2},?\s+\d{4})/i at i: match[1]
renewalDateAt(text, low, i) ==
    LET j == skip(text, i + 7, SPACE)
        k == skip(text, j + 4, ": ")
    IN  IF /\ startsWithAt(low, "renewal", i) /\ j > i + 7
           /\ startsWithAt(low, "date", j) /\ k > j + 4
           /\ dateTextEnd(text, k) > k
        THEN SubSeq(text, k, dateTextEnd(text, k) - 1)
        ELSE NULL

\* /renew(?:s|ing)?\s+(?:on\s+)?([A-Za-z]+\s+\d{1,2},?\s+\d{4})/i at i: match[1]
renewsOnAt(text, low, i) ==
    LET a == IF startsWithAt(low, "ing", i + 5) THEN i + 8
             ELSE IF startsWithAt(low, "s", i + 5) THEN i + 6
             ELSE i + 5
        j == skip(text, a, SPACE)
        o == skip(text, j + 2, SPACE)
        k == IF startsWithAt(low, "on", j) /\ o > j + 2 /\ dateTextEnd(text, o) > o
             THEN o ELSE j
    IN  IF startsWithAt(low, "renew", i) /\ j > a /\ dateTextEnd(text, k) > k
        THEN SubSeq(text, k, dateTextEnd(text, k) - 1)
        ELSE NULL

\* /date[:\s]+([A-Za-z]+\s+\d{1,2},?\s+\d{4})/i at i: match[1]
dateLabelAt(text, low, i) ==
    LET k == skip(text, i + 4, ": ")
    IN  IF startsWithAt(low, "date", i) /\ k > i + 4 /\ dateTextEnd(text, k) > k
        THEN SubSeq(text, k, dateTextEnd(text, k) - 1)
        ELSE NULL

\* /(January|...|December)\s+\d{1,2},?\s+\d{4}/i at i: match[1], the month name
monthDateAt(text, low, i) ==
    IF \E m \in 1..12 :
          /\ startsWithAt(low, MONTH_NAMES[m], i)
          /\ dayYearEnd(text, i + Len(MONTH_NAMES[m])) > i + Len(MONTH_NAMES[m])
    THEN LET m == CHOOSE m \in 1..12 :
                    /\ startsWithAt(low, MONTH_NAMES[m], i)
                    /\ dayYearEnd(text, i + Len(MONTH_NAMES[m])) > i + Len(MONTH_NAMES[m])
         IN  SubSeq(text, i, i + Len(MONTH_NAMES[m]) - 1)
    ELSE NULL

leftmost(text, hits) == IF hits = {} THEN 0 ELSE minOf(hits)

\* datePatterns: per pattern the dateStr (match[1] || match[0]) of its
\* leftmost match in the body, null when the pattern does not match
dateStrings(bodyText) ==
    LET low == toLowerCase(bodyText)
        P == 1..Len(bodyText)
        i1 == leftmost(bodyText, { i \in P : renewalDateAt(bodyText, low, i) # NULL })
        i2 == leftmost(bodyText, { i \in P : renewsOnAt(bodyText, low, i) # NULL })
        i3 == leftmost(bodyText, { i \in P : dateLabelAt(bodyText, low, i) # NULL })
        i4 == leftmost(bodyText, { i \in P : monthDateAt(bodyText, low, i) # NULL })
    IN  << IF i1 = 0 THEN NULL ELSE renewalDateAt(bodyText, low, i1),
           IF i2 = 0 THEN NULL ELSE renewsOnAt(bodyText, low, i2),
           IF i3 = 0 THEN NULL ELSE dateLabelAt(bodyText, low, i3),
           IF i4 = 0 THEN NULL ELSE monthDateAt(bodyText, low, i4) >>

RECURSIVE firstValidDate(_, _, _)
\* the loop over datePatterns: the first dateStr that parses to a valid Date
firstValidDate(strs, n, tzEast) ==
    IF n > Len(strs) THEN NULL
    ELSE IF strs[n] # NULL /\ newDate(strs[n], tzEast) # NULL
         THEN newDate(strs[n], tzEast)
    ELSE firstValidDate(strs, n + 1, tzEast)

matchRenewalDate(bodyText, tzEast) == firstValidDate(dateStrings(bodyText), 1, tzEast)

\* null of an ExtractedSubscription
NO_EXTRACTION == NULLREC

orElse(v, default) == IF truthy(v) THEN v ELSE default

extractWithRegex(subject, body, tzEast) ==
    CHOOSE extracted \in {
        IF /\ ~truthy(vendorName) /\ ~truthy(plan) /\ ~truthyNum(seats)
           /\ ~truthyNum(money.amount) /\ ~truthy(renewalDate)
        THEN NO_EXTRACTION
        ELSE [ vendor_name |-> orElse(vendorName, "Unknown"),
               vendor_domain |-> NULL,
               plan |-> plan,
               seats |-> seats,
               billing_cycle |-> billingCycle,
               renewal_date |-> renewalDate,
               amount |-> money.amount,
               currency |-> orElse(money.currency, "USD"),
               confidence |-> IF truthyNum(money.amount) /\ truthy(renewalDate)
                              THEN "medium" ELSE "low" ] :
            vendorName \in { IF subject = NULL THEN NULL ELSE matchSubjectVendor(subject) },
            plan \in { matchPlan(orElse(body, "")) },
            seats \in { matchSeats(orElse(subject, "") \o " " \o orElse(body, "")) },
            billingCycle \in { matchBillingCycle(orElse(subject, "") \o " " \o orElse(body, "")) },
            renewalDate \in { matchRenewalDate(orElse(body, ""), tzEast) },
            money \in { matchAmount(orElse(subject, "") \o " " \o orElse(body, "")) } } : TRUE

\* ------------------------------------------------------------------------
\* Stage 1 of processNewMessage: headers and keyword classification
\* ------------------------------------------------------------------------
SUBSCRIPTION_KEYWORDS ==
    { "renewal", "auto-renew", "auto renew", "subscription", "invoice",
      "payment", "billing", "upcoming charge", "annual renewal",
      "monthly renewal", "your plan", "payment due", "receipt", "charge" }

\* from.match(/@([a-zA-Z0-9.-]+)/): match[1] lower-cased, or null
senderDomainOf(from) ==
    LET at == IF from = NULL THEN 0 ELSE indexOfFrom(from, "@", 1)
        hits == { k \in 1..(IF from = NULL THEN 0 ELSE Len(from)) :
                    /\ charAt(from, k) = "@"
                    /\ skip(from, k + 1, ALNUM \o ".-") > k + 1 }
    IN  IF hits = {} THEN NULL
        ELSE toLowerCase(SubSeq(from, minOf(hits) + 1,
                                skip(from, minOf(hits) + 1, ALNUM \o ".-") - 1))

\* matchedKeywords.length > 0 over subject, snippet and body
isSubscriptionText(subject, snippet, body) ==
    LET textToCheck == toLowerCase(orElse(subject, "") \o " " \o orElse(snippet, "")
                                   \o " " \o orElse(body, ""))
    IN  \E k \in SUBSCRIPTION_KEYWORDS : includes(textToCheck, toLowerCase(k))

\* ------------------------------------------------------------------------
\* Stage 2: extractSubscriptionFromEmail
\* ------------------------------------------------------------------------
\* what the provider call produced: a thrown error or an unparseable
\* response (LLM_FAILURE), or the parsed JSON object.  amountString and
\* seatsString are non-null when the JSON carries that field as a string.
LLM_FAILURE == [failed |-> TRUE]

LLM_SLACK ==
    [vendor_name |-> "slack", vendor_domain |-> NULL, plan |-> "Pro",
     seats |-> 5, seatsString |-> NULL, billing_cycle |-> "monthly",
     renewal_date |-> "2026-03-01", amount |-> 4000, amountString |-> NULL,
     currency |-> "USD", confidence |-> "high"]

LLM_NAME_ONLY ==
    [vendor_name |-> "Acme Corp", vendor_domain |-> NULL, plan |-> NULL,
     seats |-> NULLNUM, seatsString |-> NULL, billing_cycle |-> NULL,
     renewal_date |-> NULL, amount |-> NULLNUM, amountString |-> NULL,
     currency |-> NULL, confidence |-> "low"]

LLM_NO_NAME ==
    [vendor_name |-> NULL, vendor_domain |-> NULL, plan |-> NULL,
     seats |-> NULLNUM, seatsString |-> "3", billing_cycle |-> "yearly",
     renewal_date |-> "next month", amount |-> NULLNUM, amountString |-> "15.00",
     currency |-> "EUR", confidence |-> "medium"]

\* the try block of extractSubscriptionFromEmail: the parsed object with a
\* string amount and a string seats converted
parsedResponse(llm) ==
    [vendor_name |-> llm.vendor_name,
     vendor_domain |-> llm.vendor_domain,
     plan |-> llm.plan,
     seats |-> IF truthy(llm.seatsString) THEN parseInt(llm.seatsString) ELSE llm.seats,
     billing_cycle |-> llm.billing_cycle,
     renewal_date |-> llm.renewal_date,
     amount |-> IF truthy(llm.amountString) THEN parseFloat(llm.amountString)
                ELSE llm.amount,
     currency |-> llm.currency,
     confidence |-> llm.confidence]

\* regexResult: what extractWithRegex(subject, body) returns
\* extractSubscriptionFromEmail without the catch block's fallback
extractWithoutFallback(subject, body, llm, regexResult) ==
    IF ~truthy(subject) /\ ~truthy(body) THEN NO_EXTRACTION
    ELSE IF llm = LLM_FAILURE THEN NO_EXTRACTION
    ELSE parsedResponse(llm)

extractSubscriptionFromEmail(subject, body, llm, regexResult) ==
    IF ~truthy(subject) /\ ~truthy(body) THEN NO_EXTRACTION
    ELSE IF llm = LLM_FAILURE THEN regexResult
    ELSE parsedResponse(llm)

\* extracted?.field || default
fieldOr(extracted, field, default) ==
    IF extracted = NO_EXTRACTION THEN default ELSE orElse(extracted[field], default)

numOrNull(extracted, field) ==
    IF extracted = NO_EXTRACTION \/ ~truthyNum(extracted[field]) THEN NULLNUM
    ELSE extracted[field]

\* the renewalDate of createSubscriptionFromEmail
renewalDateOf(extracted, tzEast) ==
    IF extracted = NO_EXTRACTION \/ ~truthy(extracted.renewal_date) THEN NULL
    ELSE newDate(extracted.renewal_date, tzEast)

\* a validation that lets every extraction through
alwaysMeaningful(amount, renewalDate, plan) == FALSE

\* !amount && !renewalDate && !plan
noMeaningfulData(amount, renewalDate, plan) ==
    ~truthyNum(amount) /\ renewalDate = NULL /\ ~truthy(plan)

\* an empty denylist
neverGeneric(senderDomain) == FALSE

isGenericDomain(senderDomain) ==
    orElse(senderDomain, "") \in GENERIC_EMAIL_DOMAINS

\* ------------------------------------------------------------------------
\* CSV upload: csv-parser and renewal-detection
\* ------------------------------------------------------------------------
RECURSIVE removeChars(_, _)
\* s.replace(/[class]/g, '')
removeChars(s, class) ==
    IF s = "" THEN ""
    ELSE IF inClass(charAt(s, 1), class) THEN removeChars(Tail(s), class)
    ELSE charAt(s, 1) \o removeChars(Tail(s), class)

\* parseAmount of a string in the ASCII range, in hundredths
parseAmount(value) ==
    LET cleaned == removeChars(value, "$, ")
        inner == IF Len(cleaned) >= 2 /\ charAt(cleaned, 1) = "("
                    /\ charAt(cleaned, Len(cleaned)) = ")"
                 THEN SubSeq(cleaned, 2, Len(cleaned) - 1) ELSE cleaned
        unsigned == IF inner # "" /\ charAt(inner, 1) = "-" THEN Tail(inner) ELSE inner
        amount == parseFloat(unsigned)
    IN  IF amount = NAN THEN 0 ELSE amount

\* month index m0 (0-based, any integer >= 0) and day d >= 1 of year y, as
\* new Date(y, m0, d) normalises them
RECURSIVE makeDay(_, _, _)
makeDay(y, m0, d) ==
    IF m0 >= 12 THEN makeDay(y + 1, m0 - 12, d)
    ELSE IF d > daysInMonth(y, m0 + 1) THEN makeDay(y, m0 + 1, d - daysInMonth(y, m0 + 1))
    ELSE [y |-> y, m |-> m0 + 1, d |-> d]

\* parseDate: new Date(value) when valid, else the MM/DD/YYYY constructor call
parseDate(value, tzEast) ==
    LET constructed(p) ==
            LET local == IF p.d = 0 THEN previousDay(makeDay(p.y, p.m - 1, 1))
                         ELSE makeDay(p.y, p.m - 1, p.d)
                utc == IF tzEast THEN previousDay(local) ELSE local
            IN  isoDay(utc.y, utc.m, utc.d)
    IN  IF ~truthy(value) THEN NULL
        ELSE CHOOSE r \in { IF date # NULL THEN date
                            ELSE IF p # NULLREC /\ p.m >= 1 THEN constructed(p)
                            ELSE NULL :
                            date \in { newDate(value, tzEast) },
                            p \in { slashParts(value) } } : TRUE

\* s.replace(/\s*<pattern>.*$/, ''): the text before the first position from
\* which, white space skipped, the pattern matches; hits are those positions
cutBefore(s, hits) ==
    IF hits = {} THEN s ELSE SubSeq(s, 1, minOf(hits) - 1)

\* /^(purchase|payment|debit|withdrawal|ach|wire|eft)\s*/i removed
dropPrefix(s) ==
    LET low == toLowerCase(s)
        words == << "purchase", "payment", "debit", "withdrawal", "ach", "wire", "eft" >>
        found == { k \in 1..Len(words) : startsWithAt(low, words[k], 1) }
    IN  IF found = {} THEN s
        ELSE SubSeq(s, skip(s, Len(words[minOf(found)]) + 1, SPACE), Len(s))

RECURSIVE capitalizeWords(_, _)
\* split(' '), first letter upper case, the rest lower case, join(' ')
capitalizeWords(s, atStart) ==
    IF s = "" THEN ""
    ELSE (IF atStart THEN upperCh(charAt(s, 1)) ELSE lowerCh(charAt(s, 1)))
         \o capitalizeWords(Tail(s), charAt(s, 1) = " ")

extractVendorName(description, explicitVendor) ==
    LET saasVendor == detectSaaSVendor(description)
        \* the chain of replace calls, each on the value of the one before
        afterKeywords ==
            { cutBefore(a, { i \in 1..Len(a) :
                               \E w \in {"recurring", "subscription", "monthly", "annual",
                                         "payment"} :
                                   startsWithAt(toLowerCase(a), w, skip(a, i, SPACE)) }) :
              a \in { dropPrefix(description) } }
        afterDates ==
            { cutBefore(b, { i \in 1..Len(b) :
                               \E k \in { skip(b, i, SPACE) } :
                                   /\ k + 4 <= Len(b)
                                   /\ \A j \in {k, k + 1, k + 3, k + 4} : isDigit(charAt(b, j))
                                   /\ charAt(b, k + 2) = "/" }) :
              b \in afterKeywords }
        afterReferences ==
            { cutBefore(c, { i \in 1..Len(c) :
                               \E k \in { skip(c, i, SPACE) } :
                                   /\ k + 1 <= Len(c)
                                   /\ charAt(c, k) = "#"
                                   /\ isDigit(charAt(c, k + 1)) }) :
              c \in afterDates }
        afterCards ==
            { cutBefore(d, { i \in 1..Len(d) :
                               \E k \in { skip(d, i, SPACE) } :
                                   /\ k <= Len(d)
                                   /\ charAt(d, k) = "*"
                                   /\ skip(d, k, "*") <= Len(d)
                                   /\ isDigit(charAt(d, skip(d, k, "*"))) }) :
              d \in afterReferences }
        vendor == CHOOSE v \in { capitalizeWords(trim(e), TRUE) : e \in afterCards } : TRUE
    IN  IF truthy(explicitVendor) /\ trim(explicitVendor) # "" THEN trim(explicitVendor)
        ELSE IF saasVendor # NULLREC THEN saasVendor.name
        ELSE IF vendor = "" THEN "Unknown Vendor" ELSE vendor

\* /a\s*b/ found in low
gapMatch(low, a, b) ==
    \E i \in 1..Len(low) :
        startsWithAt(low, a, i) /\ startsWithAt(low, b, skip(low, i + Len(a), SPACE))

isSaaSSubscription(description) ==
    LET low == toLowerCase(description)
    IN  \/ detectSaaSVendor(description) # NULLREC
        \/ \E w \in {"subscription", "monthly", "annual", "recurring", "license", "saas",
                     "software", ".com", ".io", "cloud", "enterprise"} : includes(low, w)
        \/ \E w \in {"pro", "team", "business"} : gapMatch(low, w, "plan")

\* the body of the row loop of parseCSV: the ParsedTransaction of a row, or
\* NULLREC when the row is skipped
parseRow(row, tzEast) ==
    LET description == orElse(row.description, "")
        transaction(date, amount, vendorName, saasVendor) ==
            IF date = NULL \/ amount = 0 THEN NULLREC
            ELSE [date |-> date, vendorName |-> vendorName,
                  normalizedVendorName |-> normalizeVendorName(vendorName),
                  amount |-> amount, rawDescription |-> description,
                  isSaaS |-> isSaaSSubscription(description)
                             \/ isSaaSSubscription(vendorName),
                  category |-> IF saasVendor # NULLREC THEN saasVendor.category
                               ELSE row.category]
    IN  CHOOSE r \in { transaction(date, amount, vendorName,
                                   IF byDescription # NULLREC THEN byDescription
                                   ELSE detectSaaSVendor(vendorName)) :
                       date \in { parseDate(row.date, tzEast) },
                       amount \in { parseAmount(row.amount) },
                       vendorName \in { extractVendorName(description, row.vendor) },
                       byDescription \in { detectSaaSVendor(description) } } : TRUE

RECURSIVE parseRows(_, _)
parseRows(rows, tzEast) ==
    IF rows = << >> THEN << >>
    ELSE (CHOOSE kept \in { IF tx = NULLREC THEN << >> ELSE << tx >> :
                            tx \in { parseRow(Head(rows), tzEast) } } : TRUE)
         \o parseRows(Tail(rows), tzEast)

\* Common column name mappings
DATE_COLUMNS == << "date", "transaction date", "trans date", "posted date", "txn date" >>

DESCRIPTION_COLUMNS ==
    << "description", "memo", "name", "payee", "merchant", "trans description" >>

AMOUNT_COLUMNS == << "amount", "debit", "withdrawal", "payment", "charge" >>

VENDOR_COLUMNS == << "vendor", "payee", "merchant", "name" >>

CATEGORY_COLUMNS == << "category", "type", "class" >>

\* a lookup that takes the first header for every kind of column
firstHeader(headers, candidates) == IF headers = << >> THEN NULL ELSE headers[1]

\* findColumn: the header equal to the first candidate that has an equal
\* header, else the header containing the first candidate that is contained
\* in one, else null; headers are compared lowercased and trimmed
findColumn(headers, candidates) ==
    LET normalizedHeaders == [i \in 1..Len(headers) |-> trim(toLowerCase(headers[i]))]
        exact(c) == { i \in 1..Len(headers) : normalizedHeaders[i] = candidates[c] }
        partial(c) == { i \in 1..Len(headers) :
                          includes(normalizedHeaders[i], candidates[c]) }
        exactly == { c \in 1..Len(candidates) : exact(c) # {} }
        partly == { c \in 1..Len(candidates) : partial(c) # {} }
    IN  IF exactly # {} THEN headers[minOf(exact(minOf(exactly)))]
        ELSE IF partly # {} THEN headers[minOf(partial(minOf(partly)))]
        ELSE NULL

\* the values the row loop reads from a row of result.data, a function on
\* the headers, under the column mapping cols
rowValues(row, cols) ==
    [ date |-> row[cols.dateCol],
      description |-> IF cols.descCol # NULL THEN orElse(row[cols.descCol], "") ELSE "",
      amount |-> row[cols.amountCol],
      vendor |-> IF cols.vendorCol # NULL THEN row[cols.vendorCol] ELSE NULL,
      category |-> IF cols.categoryCol # NULL THEN row[cols.categoryCol] ELSE NULL ]

RECURSIVE processRows(_, _, _, _)
\* the row loop from index i (0-based) on: the transactions pushed and the
\* errors pushed, each in order; parseAmount(undefined) throws into the catch
processRows(data, cols, i, tzEast) ==
    IF i >= Len(data) THEN [transactions |-> << >>, errors |-> << >>]
    ELSE CHOOSE r \in
           { [ transactions |->
                   (IF one.tx = NULLREC THEN << >> ELSE << one.tx >>) \o rest.transactions,
               errors |->
                   (IF one.error = NULL THEN << >>
                    ELSE << [row |-> i + 2, message |-> one.error] >>) \o rest.errors ] :
               one \in { IF parseDate(v.date, tzEast) = NULL
                         THEN [tx |-> NULLREC, error |-> "Invalid date"]
                         ELSE IF v.amount = NULL
                         THEN [tx |-> NULLREC,
                               error |-> "Cannot read properties of undefined"]
                         ELSE [tx |-> parseRow(v, tzEast), error |-> NULL] :
                         v \in { rowValues(data[i + 1], cols) } },
               rest \in { processRows(data, cols, i + 1, tzEast) } } : TRUE

\* parseCSV after Papa.parse: parsed holds meta.fields, data and errors of
\* the Papa result; an error is [row, message]
parseCSV(parsed, tzEast) ==
    LET headers == parsed.fields
        papaErrors == parsed.errors
        failed(message) ==
            [ transactions |-> << >>,
              errors |-> papaErrors \o << [row |-> NULLNUM, message |-> message] >>,
              totalRows |-> Len(parsed.data), saasCount |-> 0 ]
        done(loop) ==
            [ transactions |-> loop.transactions,
              errors |-> SubSeq(papaErrors \o loop.errors, 1,
                                IF Len(papaErrors) + Len(loop.errors) > 10 THEN 10
                                ELSE Len(papaErrors) + Len(loop.errors)),
              totalRows |-> Len(parsed.data),
              saasCount |-> Cardinality({ k \in 1..Len(loop.transactions) :
                                           loop.transactions[k].isSaaS }) ]
    IN  CHOOSE r \in
          { IF cols.dateCol = NULL THEN failed("Could not find date column")
            ELSE IF cols.descCol = NULL /\ cols.vendorCol = NULL
            THEN failed("Could not find description or vendor column")
            ELSE IF cols.amountCol = NULL THEN failed("Could not find amount column")
            ELSE done(processRows(parsed.data, cols, 0, tzEast)) :
            cols \in { [ dateCol |-> findColumn(headers, DATE_COLUMNS),
                         descCol |-> findColumn(headers, DESCRIPTION_COLUMNS),
                         amountCol |-> findColumn(headers, AMOUNT_COLUMNS),
                         vendorCol |-> findColumn(headers, VENDOR_COLUMNS),
                         categoryCol |-> findColumn(headers, CATEGORY_COLUMNS) ] } } : TRUE

\* days from 1970-01-01 to the ISO day t
daysBeforeYear(y) ==
    365 * (y - 1970) + ((y - 1) \div 4 - (y - 1) \div 100 + (y - 1) \div 400) - 477

RECURSIVE daysBeforeMonth(_, _)
daysBeforeMonth(y, m) ==
    IF m = 1 THEN 0 ELSE daysInMonth(y, m - 1) + daysBeforeMonth(y, m - 1)

getTimeDays(t) ==
    LET y == parseInt(SubSeq(t, 1, 4))
        m == parseInt(SubSeq(t, 6, 7))
        d == parseInt(SubSeq(t, 9, 10))
    IN  daysBeforeYear(y) + daysBeforeMonth(y, m) + d - 1

maxOf(S) == CHOOSE x \in S : \A y \in S : x >= y

RECURSIVE sortDates(_)
\* [...dates].sort((a, b) => a.getTime() - b.getTime())
sortDates(dates) ==
    IF dates = << >> THEN << >>
    ELSE CHOOSE r \in { SubSeq(rest, 1, k) \o << Head(dates) >>
                          \o SubSeq(rest, k + 1, Len(rest)) :
                        rest \in { sortDates(Tail(dates)) },
                        k \in { n \in 0..(Len(dates) - 1) :
                                  n = Cardinality({ i \in 2..Len(dates) :
                                          getTimeDays(dates[i]) <= getTimeDays(Head(dates)) }) } } :
             TRUE

RECURSIVE sumGaps(_, _)
\* the loop that adds sortedDates[i] - sortedDates[i - 1], in days, from i on
sumGaps(sorted, i) ==
    IF i > Len(sorted) THEN 0
    ELSE sorted[i] - sorted[i - 1] + sumGaps(sorted, i + 1)

\* the thresholds on avgDays = totalDays / gaps
classifyGap(totalDays, gaps) ==
    IF totalDays <= 45 * gaps THEN "monthly"
    ELSE IF totalDays <= 120 * gaps THEN "quarterly"
    ELSE IF totalDays <= 400 * gaps THEN "annual"
    ELSE "one-time"

\* detectFrequency without the chronological sort
detectFrequencyUnsorted(dates) ==
    IF Len(dates) < 2 THEN "monthly"
    ELSE classifyGap(sumGaps([i \in 1..Len(dates) |-> getTimeDays(dates[i])], 2),
                     Len(dates) - 1)

detectFrequency(dates) ==
    IF Len(dates) < 2 THEN "monthly"
    ELSE CHOOSE f \in { classifyGap(sumGaps([i \in 1..Len(dates) |->
                                               getTimeDays(sortedDates[i])], 2),
                                    Len(dates) - 1) :
                        sortedDates \in { sortDates(dates) } } :
             TRUE

\* ------------------------------------------------------------------------
\* Renewal dates.  A transaction date is a calendar day at midnight; now, the
\* value of new Date(), is an instant counted in half days since the epoch,
\* so that it can lie between two midnights.
\* ------------------------------------------------------------------------
getTimeHalves(now) == 2 * getTimeDays(now.day) + now.half

\* renewalDate < now
isBefore(t, now) == 2 * getTimeDays(t) < now

\* date.setMonth(date.getMonth() + n): a day past the end of the month
\* reached is carried into the month after it
addMonths(t, n) ==
    CHOOSE r \in { isoDay(c.y, c.m, c.d) :
                     c \in { makeDay(parseInt(SubSeq(t, 1, 4)),
                                     parseInt(SubSeq(t, 6, 7)) - 1 + n,
                                     parseInt(SubSeq(t, 9, 10))) } } : TRUE

\* date.setFullYear(date.getFullYear() + 1)
addYear(t) ==
    CHOOSE r \in { isoDay(c.y, c.m, c.d) :
                     c \in { makeDay(parseInt(SubSeq(t, 1, 4)) + 1,
                                     parseInt(SubSeq(t, 6, 7)) - 1,
                                     parseInt(SubSeq(t, 9, 10))) } } : TRUE

\* a loop that ignores now
noRoll(t, now, n) == t

RECURSIVE rollMonths(_, _, _)
\* while (renewalDate < now) renewalDate.setMonth(renewalDate.getMonth() + n)
rollMonths(t, now, n) ==
    IF isBefore(t, now)
    THEN CHOOSE r \in { rollMonths(u, now, n) : u \in { addMonths(t, n) } } : TRUE
    ELSE t

\* one more year, whatever now is
addOneYear(t, now) == addYear(t)

RECURSIVE rollYears(_, _)
\* while (renewalDate < now) renewalDate.setFullYear(renewalDate.getFullYear() + 1)
rollYears(t, now) ==
    IF isBefore(t, now)
    THEN CHOOSE r \in { rollYears(u, now) : u \in { addYear(t) } } : TRUE
    ELSE t

\* calculateRenewalDate, with the instant new Date() gave as fourth argument;
\* an absent firstTransactionDate is NULL
calculateRenewalDate(lastTransactionDate, frequency, firstTransactionDate, now) ==
    IF frequency = "monthly"
    THEN rollMonths(addMonths(lastTransactionDate, 1), now, 1)
    ELSE IF frequency = "quarterly"
    THEN rollMonths(addMonths(lastTransactionDate, 3), now, 3)
    ELSE IF frequency = "annual"
    THEN IF firstTransactionDate # NULL
         THEN rollYears(addMonths(firstTransactionDate, 11), now)
         ELSE rollYears(addMonths(lastTransactionDate, 11), now)
    ELSE lastTransactionDate

\* Math.ceil of a number of half days, in days
ceilDays(halves) == (halves + 1) \div 2

\* a test that leaves out daysUntilRenewal > 0
withinThirtyDays(daysUntilRenewal) == daysUntilRenewal <= 30

\* daysUntilRenewal <= 30 && daysUntilRenewal > 0
isUrgent(daysUntilRenewal) == daysUntilRenewal <= 30 /\ daysUntilRenewal > 0

\* getRenewalInfo; now is the instant calculateRenewalDate reads and later
\* the one getRenewalInfo reads after it; an absent frequency is NULL.  The
\* result is [returned |-> RenewalInfo] or [thrown |-> the Error].
getRenewalInfo(transactionDates, frequency, now, later) ==
    IF Len(transactionDates) = 0
    THEN [ thrown |-> [ name |-> "Error",
                        message |-> "At least one transaction date is required" ] ]
    ELSE CHOOSE r \in
           { [ returned |-> [ frequency |-> info.frequency,
                              renewalDate |-> info.renewalDate,
                              daysUntilRenewal |-> info.days,
                              isUrgent |-> isUrgent(info.days) ] ] :
               info \in
                 { [ frequency |-> p.frequency, renewalDate |-> p.renewalDate,
                     days |-> ceilDays(2 * getTimeDays(p.renewalDate) - later) ] :
                     p \in
                       { [ frequency |-> q.detectedFrequency,
                           renewalDate |->
                               calculateRenewalDate(q.lastDate, q.detectedFrequency,
                                                    q.firstDate, now) ] :
                           q \in
                             { [ firstDate |-> sortedDates[1],
                                 lastDate |-> sortedDates[Len(sortedDates)],
                                 detectedFrequency |->
                                     IF truthy(frequency) THEN frequency
                                     ELSE detectFrequency(sortedDates) ] :
                                 sortedDates \in { sortDates(transactionDates) } } } } } :
             TRUE

\* the transactions of a list whose normalizedVendorName is key, in order
RECURSIVE ofVendor(_, _)
ofVendor(txs, key) ==
    IF txs = << >> THEN << >>
    ELSE (IF Head(txs).normalizedVendorName = key THEN << Head(txs) >> ELSE << >>)
         \o ofVendor(Tail(txs), key)

RECURSIVE sumAmounts(_)
sumAmounts(txs) == IF txs = << >> THEN 0 ELSE Head(txs).amount + sumAmounts(Tail(txs))

\* groupByVendor keys in insertion order
RECURSIVE groupKeys(_, _)
groupKeys(txs, seen) ==
    IF txs = << >> THEN << >>
    ELSE IF Head(txs).normalizedVendorName \in seen THEN groupKeys(Tail(txs), seen)
    ELSE << Head(txs).normalizedVendorName >>
         \o groupKeys(Tail(txs), seen \cup { Head(txs).normalizedVendorName })

summaryOf(txs, key) ==
    LET own == ofVendor(txs, key)
        withCategory == { i \in 1..Len(own) : truthy(own[i].category) }
        days == { own[i].date : i \in 1..Len(own) }
    IN  [vendorName |-> own[1].vendorName,
         normalizedName |-> key,
         totalAmount |-> sumAmounts(own),
         transactionCount |-> Len(own),
         firstDate |-> CHOOSE t \in days : \A u \in days : getTimeDays(t) <= getTimeDays(u),
         lastDate |-> CHOOSE t \in days : \A u \in days : getTimeDays(t) >= getTimeDays(u),
         isSaaS |-> \E i \in 1..Len(own) : own[i].isSaaS,
         category |-> IF withCategory = {} THEN NULL ELSE own[minOf(withCategory)].category]

\* a list that keeps the order in which the groups were met
appendSummary(sorted, x) == sorted \o << x >>

RECURSIVE insertByTotal(_, _)
\* stable insertion of x into a list sorted by totalAmount, largest first
insertByTotal(sorted, x) ==
    IF sorted = << >> THEN << x >>
    ELSE IF Head(sorted).totalAmount >= x.totalAmount
         THEN << Head(sorted) >> \o insertByTotal(Tail(sorted), x)
    ELSE << x >> \o sorted

RECURSIVE sortByTotal(_, _)
sortByTotal(list, acc) ==
    IF list = << >> THEN acc ELSE sortByTotal(Tail(list), insertByTotal(acc, Head(list)))

calculateVendorSummaries(txs) ==
    LET keys == groupKeys(txs, {})
    IN  sortByTotal([ i \in 1..Len(keys) |-> summaryOf(txs, keys[i]) ], << >>)

\* ------------------------------------------------------------------------
\* Vendor classification (validation.ts)
\* ------------------------------------------------------------------------
DEFAULT_FIXED_PLAN_VENDORS ==
    << "spotify", "netflix", "disney+", "hulu", "amazon prime",
       "apple music", "youtube premium", "hbo max", "paramount+" >>

DEFAULT_NEGOTIABLE_VENDORS ==
    << "salesforce", "hubspot", "marketo", "pardot",
       "workday", "servicenow", "snowflake", "databricks",
       "okta", "auth0", "onelogin",
       "datadog", "splunk", "new relic", "dynatrace",
       "aws", "azure", "gcp",
       "sap", "oracle", "ibm",
       "zendesk", "intercom", "freshdesk",
       "atlassian", "jira", "confluence",
       "slack", "teams",
       "docusign", "adobe", "autodesk" >>

negotiableCategories ==
    << "Enterprise", "CRM", "ERP", "Security", "Infrastructure",
       "Analytics", "Data", "HR", "Finance", "DevOps", "Cloud" >>

\* list.some(v => text.includes(v))
someIncluded(list, text) == \E i \in 1..Len(list) : includes(text, list[i])

\* classifyVendorSync: the fallback lists only
classifyVendorSync(vendorName, category) ==
    CHOOSE t \in
      { IF someIncluded(DEFAULT_FIXED_PLAN_VENDORS, normalized) THEN "FIXED_PLAN"
        ELSE IF someIncluded(DEFAULT_NEGOTIABLE_VENDORS, normalized) THEN "NEGOTIABLE"
        ELSE IF truthy(category) /\ \E i \in 1..Len(negotiableCategories) :
                                       includes(category, negotiableCategories[i])
             THEN "NEGOTIABLE"
        ELSE "NEGOTIABLE" :
        normalized \in { trim(toLowerCase(vendorName)) } } : TRUE

\* the where clause of the vendor lookup of classifyVendor: normalizedName
\* equal to the name without whitespace, or name containing vendorName
\* whatever the case
vendorTypeWhere(row, vendorName) ==
    \/ row.normalizedName = stripWhitespace(trim(toLowerCase(vendorName)))
    \/ includes(toLowerCase(row.name), toLowerCase(vendorName))

\* what prisma.vendor.findFirst may give on a Vendor table: a thrown error,
\* null when no row matches, else any matching row (the query has no orderBy)
findFirstVendorType(table, vendorName) ==
    { [ thrown |-> "PrismaClientKnownRequestError" ] }
        \cup ( IF \E row \in table : vendorTypeWhere(row, vendorName)
               THEN { [ returned |-> [ vendorType |-> row.vendorType ] ] :
                        row \in { x \in table : vendorTypeWhere(x, vendorName) } }
               ELSE { [ returned |-> NULLREC ] } )

\* classifyVendor, given the outcome of its lookup
classifyVendor(vendorName, category, lookup) ==
    CHOOSE t \in
      { IF /\ "returned" \in DOMAIN lookup
           /\ lookup.returned # NULLREC
           /\ truthy(lookup.returned.vendorType)
        THEN lookup.returned.vendorType
        ELSE IF someIncluded(DEFAULT_FIXED_PLAN_VENDORS, normalized) THEN "FIXED_PLAN"
        ELSE IF someIncluded(DEFAULT_NEGOTIABLE_VENDORS, normalized) THEN "NEGOTIABLE"
        ELSE IF truthy(category) /\ \E i \in 1..Len(negotiableCategories) :
                                       includes(category, negotiableCategories[i])
             THEN "NEGOTIABLE"
        ELSE "NEGOTIABLE" :
        normalized \in { trim(toLowerCase(vendorName)) } } : TRUE

\* ------------------------------------------------------------------------
\* Retry with exponential backoff.  An error is [instance, message]: instance
\* is "TypeError", "Error" or "other" for a thrown value that is no Error.
\* Delays are in sixteenths of a millisecond, Math.random() in quarters.
\* ------------------------------------------------------------------------
DEFAULT_CONFIG ==
    [ maxAttempts |-> 3, initialDelayMs |-> 1000, maxDelayMs |-> 10000,
      backoffMultiplier |-> 2 ]

isRetryableError(error) ==
    \/ error.instance = "TypeError" /\ includes(error.message, "fetch")
    \/ /\ error.instance \in { "TypeError", "Error" }
       /\ someIncluded(<< "rate limit", "429", "500", "502", "503", "504", "timeout",
                          "econnreset", "network" >>, toLowerCase(error.message))

\* the retryableErrors of withLLMRetry
llmRetryableErrors(error) ==
    IF /\ error.instance \in { "TypeError", "Error" }
       /\ someIncluded(<< "401", "403", "invalid", "api key" >>, toLowerCase(error.message))
    THEN FALSE
    ELSE isRetryableError(error)

\* the retryableErrors of withGmailRetry
gmailRetryableErrors(error) ==
    IF /\ error.instance \in { "TypeError", "Error" }
       /\ someIncluded(<< "401", "403", "invalid_grant", "insufficient" >>,
                       toLowerCase(error.message))
    THEN FALSE
    ELSE isRetryableError(error)

\* the config argument withLLMRetry passes to withRetry
LLM_CONFIG ==
    [ maxAttempts |-> 3, initialDelayMs |-> 1000, maxDelayMs |-> 15000,
      backoffMultiplier |-> 2, retryableErrors |-> "withLLMRetry" ]

\* the config argument withGmailRetry passes to withRetry
GMAIL_CONFIG ==
    [ maxAttempts |-> 3, initialDelayMs |-> 500, maxDelayMs |-> 5000,
      backoffMultiplier |-> 2, retryableErrors |-> "withGmailRetry" ]

\* { ...DEFAULT_CONFIG, ...config }
finalConfig(config) ==
    [ k \in DOMAIN DEFAULT_CONFIG \cup DOMAIN config |->
        IF k \in DOMAIN config THEN config[k] ELSE DEFAULT_CONFIG[k] ]

\* finalConfig.retryableErrors || isRetryableError, applied to an error
shouldRetry(config, error) ==
    IF "retryableErrors" \notin DOMAIN config THEN isRetryableError(error)
    ELSE IF config.retryableErrors = "withLLMRetry" THEN llmRetryableErrors(error)
    ELSE gmailRetryableErrors(error)

RECURSIVE pow(_, _)
\* Math.pow(base, n) for an integer n >= 0
pow(base, n) == IF n = 0 THEN 1 ELSE base * pow(base, n - 1)

\* calculateDelay: cappedDelay + cappedDelay * random * 0.25
calculateDelay(attempt, config, random) ==
    CHOOSE d \in
      { 16 * cappedDelay + cappedDelay * random :
        cappedDelay \in
          { IF config.initialDelayMs * pow(config.backoffMultiplier, attempt - 1)
                  < config.maxDelayMs
            THEN config.initialDelayMs * pow(config.backoffMultiplier, attempt - 1)
            ELSE config.maxDelayMs } } : TRUE

\* ------------------------------------------------------------------------
\* The mailboxes the Gmail API serves
\* ------------------------------------------------------------------------
Users == { "u1", "u2" }

Mailbox ==
    [ m1 |-> [from |-> "Slack <billing@slack.com>", subject |-> "Slack Billing Plan",
              snippet |-> "Your plan renews soon",
              body |-> "Plan: Pro Seats: 5 Amount: $40.00 Renewal date: March 1, 2026"],
      m2 |-> [from |-> "Ann <ann@gmail.com>", subject |-> "Figma invoice",
              snippet |-> NULL, body |-> "Thanks for your payment"],
      m3 |-> [from |-> "AR <ar@Acme.io>", subject |-> "Receipt",
              snippet |-> NULL, body |-> "Total: $15.00 billed monthly"],
      m4 |-> [from |-> "Billing Team", subject |-> "Payment due",
              snippet |-> NULL, body |-> NULL],
      m5 |-> [from |-> "Bob <bob@acme.io>", subject |-> "Lunch",
              snippet |-> "See you at noon", body |-> NULL] ]

MailIds == DOMAIN Mailbox

\* the listing users.messages.list returns for each user's inbox
Inbox == [ u1 |-> << "m1", "m2" >>, u2 |-> << "m3", "m4", "m5" >> ]

\* the answers the provider can give for each message
providerAnswers(id) ==
    IF id = "m1" THEN { LLM_FAILURE, LLM_SLACK }
    ELSE IF id = "m2" THEN { LLM_FAILURE, LLM_NO_NAME }
    ELSE { LLM_FAILURE, LLM_NAME_ONLY }

\* lines 315-339 of processNewMessage
stage1(message) ==
    [senderDomain |-> senderDomainOf(message.from),
     isSubscription |-> isSubscriptionText(message.subject, message.snippet, message.body)]

\* ------------------------------------------------------------------------
\* State
\* ------------------------------------------------------------------------
Scans == { 1, 2 }
\* scanInbox calls and route requests an execution makes in total
MaxCalls == 2

VARIABLES
    gmailMessages,    \* GmailMessage table
    vendors,          \* Vendor table
    subscriptions,    \* Subscription table
    transactions,     \* Transaction table
    lastGmailSyncAt,  \* OAuthToken.lastGmailSyncAt per user
    scan,             \* the scanInbox calls in progress: position and locals
    result,           \* the GmailScanResult each call returned last
    last,             \* the response of the last route handler
    clock,            \* the time new Date() reads
    tzEast,           \* the server's time zone is east of UTC
    analysis,         \* stage1 and extractWithRegex of each message, tabulated
    scansStarted,     \* scanInbox calls so far
    requests,         \* route handler calls so far
    stage2Runs,       \* per message ID, the calls of createSubscriptionFromEmail
    resolveIn,        \* arguments of a resolveVendorName call
    resolveOut,       \* its result
    callIn,           \* a pure function called on its own and its arguments
    callOut,          \* what that call returned or threw
    retry,            \* a withRetry call: its config, position and locals
    negotiations,     \* Negotiation table
    savings,          \* Saving table
    outbox,           \* the mails sendEmail delivered, in order
    handlers,         \* the negotiation route handlers in progress
    reply,            \* the response of the last of them that returned
    handled           \* calls of these handlers so far

tables == << gmailMessages, vendors, subscriptions, transactions, lastGmailSyncAt >>
env == << tzEast, analysis >>
storeVars == << tables, scan, result, last, clock, env, scansStarted, requests,
                stage2Runs >>
retryVars == << retry >>
negotiationVars == << negotiations, savings, outbox, handlers, reply, handled >>
callVars == << resolveIn, resolveOut, callIn, callOut, retryVars, negotiationVars >>
vars == << storeVars, callVars >>

NO_CALL == [isNull |-> TRUE]

IdleLocals ==
    [llm |-> NO_CALL, extracted |-> NO_EXTRACTION, vendorName |-> NULL,
     category |-> NULL, vendorId |-> 0, vendorCreated |-> FALSE,
     foundBy |-> NULL, subscriptionCreated |-> FALSE]

IdleScan ==
    [pc |-> "idle", userId |-> NULL, batch |-> << >>, idx |-> 0,
     newMessages |-> 0, subscriptionsCreated |-> 0, vendorsCreated |-> 0,
     skippedCount |-> 0, locals |-> IdleLocals]

ZeroResult ==
    [messagesScanned |-> 0, newMessages |-> 0, subscriptionsCreated |-> 0,
     vendorsCreated |-> 0, skippedCount |-> 0]

StoreInit ==
    /\ gmailMessages = {}
    /\ vendors = {}
    /\ subscriptions = {}
    /\ transactions = {}
    /\ lastGmailSyncAt = [u \in Users |-> NULLNUM]
    /\ scan = [s \in Scans |-> IdleScan]
    /\ result = [s \in Scans |-> NULLREC]
    /\ last = NULLREC
    /\ clock = 1
    /\ tzEast \in BOOLEAN
    /\ analysis = [m \in MailIds |->
                     [stage1 |-> stage1(Mailbox[m]),
                      regexResult |-> extractWithRegex(Mailbox[m].subject, Mailbox[m].body,
                                                       tzEast)]]
    /\ scansStarted = 0
    /\ requests = 0
    /\ stage2Runs = [m \in MailIds |-> 0]

Init ==
    /\ StoreInit
    /\ resolveIn = NO_CALL
    /\ resolveOut = NO_CALL
    /\ callIn = NO_CALL
    /\ callOut = NO_CALL
    /\ retry = NO_CALL
    /\ negotiations = {}
    /\ savings = {}
    /\ outbox = << >>
    /\ handlers = << >>
    /\ reply = NO_CALL
    /\ handled = 0

\* ------------------------------------------------------------------------
\* scanInbox, one action per database or provider call
\* ------------------------------------------------------------------------
currentId(s) == scan[s].batch[scan[s].idx]

\* a lookup that finds no row
neverStored(id) == FALSE

stored(id) == \E r \in gmailMessages : r.gmailId = id

\* a call occupies the lowest free slot
freeSlot(s) == scan[s].pc = "idle" /\ \A t \in Scans : t < s => scan[t].pc # "idle"

idle == \A s \in Scans : scan[s].pc = "idle"

\* getGmailClient returns null, or users.messages.list throws
ScanUnavailable(s, u) ==
    /\ freeSlot(s)
    /\ scansStarted + requests < MaxCalls
    /\ scansStarted' = scansStarted + 1
    /\ result' = [result EXCEPT ![s] = ZeroResult]
    /\ UNCHANGED << tables, scan, last, clock, env, requests, stage2Runs, callVars >>

\* users.messages.list returns messageRefs
ScanList(s, u) ==
    /\ freeSlot(s)
    /\ scansStarted + requests < MaxCalls
    /\ scansStarted' = scansStarted + 1
    /\ scan' = [scan EXCEPT ![s] = [IdleScan EXCEPT !.pc = "check", !.userId = u,
                                                    !.batch = Inbox[u], !.idx = 1]]
    /\ UNCHANGED << tables, result, last, clock, env, requests, stage2Runs, callVars >>

\* gmailMessage.findUnique finds the row: skip
ScanSkip(s) ==
    /\ scan[s].pc = "check"
    /\ scan[s].idx <= Len(scan[s].batch)
    /\ stored(currentId(s))
    /\ scan' = [scan EXCEPT ![s].skippedCount = @ + 1, ![s].idx = @ + 1]
    /\ UNCHANGED << tables, result, last, clock, env, scansStarted, requests,
                    stage2Runs, callVars >>

\* gmailMessage.findUnique finds nothing: processNewMessage is called
ScanNew(s) ==
    /\ scan[s].pc = "check"
    /\ scan[s].idx <= Len(scan[s].batch)
    /\ ~stored(currentId(s))
    /\ scan' = [scan EXCEPT ![s].pc = "fetch"]
    /\ UNCHANGED << tables, result, last, clock, env, scansStarted, requests,
                    stage2Runs, callVars >>

\* a return of processNewMessage that ends the loop
leftLoop(s, subscriptionCreated, vendorCreated) ==
    [scan[s] EXCEPT !.pc = "check", !.idx = Len(scan[s].batch) + 1,
                    !.locals = IdleLocals]

\* processNewMessage has returned: lines 262-265 and the next iteration
returned(s, subscriptionCreated, vendorCreated) ==
    [scan[s] EXCEPT !.pc = "check", !.idx = @ + 1, !.newMessages = @ + 1,
                    !.subscriptionsCreated = IF subscriptionCreated THEN @ + 1 ELSE @,
                    !.vendorsCreated = IF vendorCreated THEN @ + 1 ELSE @,
                    !.locals = IdleLocals]

\* users.messages.get throws: the catch of processNewMessage
FetchFail(s) ==
    /\ scan[s].pc = "fetch"
    /\ scan' = [scan EXCEPT ![s] = returned(s, FALSE, FALSE)]
    /\ UNCHANGED << tables, result, last, clock, env, scansStarted, requests,
                    stage2Runs, callVars >>

\* a GmailMessage table without the unique index
noUniqueIndex(id) == FALSE

\* the unique index on GmailMessage.gmailId
gmailIdTaken(id) == \E r \in gmailMessages : r.gmailId = id

\* users.messages.get, then gmailMessage.create
StoreMessage(s) ==
    LET id == currentId(s)
        row == [id |-> Cardinality(gmailMessages) + 1, userId |-> scan[s].userId,
                gmailId |-> id, senderDomain |-> analysis[id].stage1.senderDomain,
                isRenewal |-> analysis[id].stage1.isSubscription, isProcessed |-> FALSE]
    IN  /\ scan[s].pc = "fetch"
        /\ IF gmailIdTaken(id)
           THEN /\ scan' = [scan EXCEPT ![s] = returned(s, FALSE, FALSE)]
                /\ UNCHANGED gmailMessages
           ELSE /\ gmailMessages' = gmailMessages \cup { row }
                /\ scan' = [scan EXCEPT ![s] =
                              IF analysis[id].stage1.isSubscription /\ truthy(analysis[id].stage1.senderDomain)
                              THEN [scan[s] EXCEPT !.pc = "extract"]
                              ELSE returned(s, FALSE, FALSE)]
        /\ UNCHANGED << vendors, subscriptions, transactions, lastGmailSyncAt, result,
                        last, clock, env, scansStarted, requests, stage2Runs, callVars >>

\* createSubscriptionFromEmail up to resolveVendorName
Extract(s, llm) ==
    /\ scan[s].pc = "extract"
    /\ \E id \in { currentId(s) } :
         \E extracted \in { extractSubscriptionFromEmail(Mailbox[id].subject,
                                                          Mailbox[id].body, llm,
                                                          analysis[id].regexResult) } :
           \E resolved \in { resolveVendorName(fieldOr(extracted, "vendor_name", NULL),
                                                 analysis[id].stage1.senderDomain,
                                                 Mailbox[id].subject) } :
              /\ scan' = [scan EXCEPT ![s].pc = "findByName",
                                      ![s].locals = [IdleLocals EXCEPT
                                          !.llm = llm, !.extracted = extracted,
                                          !.vendorName = resolved.name,
                                          !.category = resolved.category]]
              /\ stage2Runs' = [stage2Runs EXCEPT ![id] = @ + 1]
    /\ UNCHANGED << tables, result, last, clock, env, scansStarted, requests,
                    callVars >>

\* vendor.findFirst by normalizedName; the domain lookup follows only under
\* the condition of line 489
FindByName(s) ==
    LET key == vendorKey(scan[s].locals.vendorName)
        hits == { v \in vendors : v.normalizedName = key }
        senderDomain == analysis[currentId(s)].stage1.senderDomain
    IN  /\ scan[s].pc = "findByName"
        /\ IF hits # {}
           THEN \E v \in hits :
                  scan' = [scan EXCEPT ![s].pc = "upsert", ![s].locals.vendorId = v.id,
                                       ![s].locals.foundBy = "name"]
           ELSE scan' = [scan EXCEPT ![s].pc =
                           IF truthy(senderDomain) /\ ~isGenericDomain(senderDomain)
                           THEN "findByDomain" ELSE "createVendor"]
        /\ UNCHANGED << tables, result, last, clock, env, scansStarted, requests,
                        stage2Runs, callVars >>

\* vendor.findFirst by domain
FindByDomain(s) ==
    LET hits == { v \in vendors : v.domain = analysis[currentId(s)].stage1.senderDomain }
    IN  /\ scan[s].pc = "findByDomain"
        /\ IF hits # {}
           THEN \E v \in hits :
                  scan' = [scan EXCEPT ![s].pc = "upsert", ![s].locals.vendorId = v.id,
                                       ![s].locals.foundBy = "domain"]
           ELSE scan' = [scan EXCEPT ![s].pc = "createVendor"]
        /\ UNCHANGED << tables, result, last, clock, env, scansStarted, requests,
                        stage2Runs, callVars >>

\* the unique index on Vendor.name
vendorNameTaken(name) == \E v \in vendors : v.name = name

\* vendor.create; a violated unique index throws into the catch of
\* processNewMessage
CreateVendor(s) ==
    LET id == currentId(s)
        l == scan[s].locals
        senderDomain == analysis[id].stage1.senderDomain
        category == orElse(l.category, orElse(getVendorCategory(senderDomain), "Uncategorized"))
        vendorDomain == fieldOr(l.extracted, "vendor_domain",
                                IF isGenericDomain(senderDomain)
                                THEN vendorKey(l.vendorName) \o ".com"
                                ELSE senderDomain)
        row == [id |-> Cardinality(vendors) + 1, name |-> l.vendorName,
                normalizedName |-> vendorKey(l.vendorName), domain |-> vendorDomain,
                category |-> category, isSaaS |-> TRUE]
    IN  /\ scan[s].pc = "createVendor"
        /\ IF vendorNameTaken(l.vendorName)
           THEN /\ scan' = [scan EXCEPT ![s] = returned(s, FALSE, FALSE)]
                /\ UNCHANGED vendors
           ELSE /\ vendors' = vendors \cup { row }
                /\ scan' = [scan EXCEPT ![s].pc = "upsert", ![s].locals.vendorId = row.id,
                                        ![s].locals.vendorCreated = TRUE]
        /\ UNCHANGED << gmailMessages, subscriptions, transactions, lastGmailSyncAt, result,
                        last, clock, env, scansStarted, requests, stage2Runs, callVars >>

\* the unique index on Subscription (userId, vendorId, source)
subscriptionsOf(userId, vendorId, source) ==
    { r \in subscriptions : r.userId = userId /\ r.vendorId = vendorId /\ r.source = source }

\* an update that writes every value of the new extraction, null included
overwriteData(r, new, now) ==
    [r EXCEPT !.lastDetectedAt = now, !.renewalDate = new.renewalDate,
              !.amount = new.amount, !.billingCycle = new.billingCycle,
              !.plan = new.plan, !.seats = new.seats, !.currency = new.currency,
              !.confidenceScore = new.confidenceScore,
              !.gmailMessageId = new.gmailMessageId]

\* the update branch of subscription.upsert applied to the row r: a field
\* given as undefined (value || undefined) keeps what the row holds
updateData(r, new, now) ==
    [r EXCEPT !.lastDetectedAt = now,
              !.renewalDate = orElse(new.renewalDate, @),
              !.amount = IF truthyNum(new.amount) THEN new.amount ELSE @,
              !.billingCycle = orElse(new.billingCycle, @),
              !.plan = orElse(new.plan, @),
              !.seats = IF truthyNum(new.seats) THEN new.seats ELSE @,
              !.currency = new.currency,
              !.confidenceScore = new.confidenceScore,
              !.gmailMessageId = new.gmailMessageId]

\* lines 518-601: the validation, then subscription.upsert
Upsert(s) ==
    LET l == scan[s].locals
        extracted == l.extracted
        renewalDate == renewalDateOf(extracted, tzEast)
        amount == numOrNull(extracted, "amount")
        billingCycle == fieldOr(extracted, "billing_cycle", NULL)
        plan == fieldOr(extracted, "plan", NULL)
        seats == numOrNull(extracted, "seats")
        currency == fieldOr(extracted, "currency", "USD")
        confidence == fieldOr(extracted, "confidence", "low")
        rows == subscriptionsOf(scan[s].userId, l.vendorId, "gmail")
        created == [id |-> Cardinality(subscriptions) + 1, userId |-> scan[s].userId,
                    vendorId |-> l.vendorId, source |-> "gmail",
                    renewalDate |-> renewalDate, amount |-> amount,
                    billingCycle |-> billingCycle, plan |-> plan, seats |-> seats,
                    currency |-> currency, confidenceScore |-> confidence,
                    gmailMessageId |-> currentId(s), lastDetectedAt |-> clock,
                    status |-> "active", notes |-> NULL]
        updated(r) == updateData(r, [renewalDate |-> renewalDate, amount |-> amount,
                                     billingCycle |-> billingCycle, plan |-> plan,
                                     seats |-> seats, currency |-> currency,
                                     confidenceScore |-> confidence,
                                     gmailMessageId |-> currentId(s)], clock)
    IN  /\ scan[s].pc = "upsert"
        /\ IF noMeaningfulData(amount, renewalDate, plan)
           THEN /\ scan' = [scan EXCEPT ![s].pc = "mark"]
                /\ UNCHANGED << subscriptions, clock >>
           ELSE /\ subscriptions' =
                      IF rows = {} THEN subscriptions \cup { created }
                      ELSE { IF r \in rows THEN updated(r) ELSE r : r \in subscriptions }
                /\ clock' = clock + 1
                /\ scan' = [scan EXCEPT ![s].pc = "mark",
                                        ![s].locals.subscriptionCreated = TRUE]
        /\ UNCHANGED << gmailMessages, vendors, transactions, lastGmailSyncAt, result,
                        last, env, scansStarted, requests, stage2Runs, callVars >>

\* gmailMessage.update isProcessed, and the return of processNewMessage
MarkProcessed(s) ==
    /\ scan[s].pc = "mark"
    /\ gmailMessages' = { IF r.gmailId = currentId(s) THEN [r EXCEPT !.isProcessed = TRUE]
                          ELSE r : r \in gmailMessages }
    /\ scan' = [scan EXCEPT ![s] = returned(s, scan[s].locals.subscriptionCreated,
                                            scan[s].locals.vendorCreated)]
    /\ UNCHANGED << vendors, subscriptions, transactions, lastGmailSyncAt, result,
                    last, clock, env, scansStarted, requests, stage2Runs, callVars >>

\* after the loop: oAuthToken.update and the returned summary
ScanFinish(s) ==
    /\ scan[s].pc = "check"
    /\ scan[s].idx > Len(scan[s].batch)
    /\ lastGmailSyncAt' = [lastGmailSyncAt EXCEPT ![scan[s].userId] = clock]
    /\ result' = [result EXCEPT ![s] =
                    [messagesScanned |-> Len(scan[s].batch),
                     newMessages |-> scan[s].newMessages,
                     subscriptionsCreated |-> scan[s].subscriptionsCreated,
                     vendorsCreated |-> scan[s].vendorsCreated,
                     skippedCount |-> scan[s].skippedCount]]
    /\ scan' = [scan EXCEPT ![s] = IdleScan]
    /\ UNCHANGED << gmailMessages, vendors, subscriptions, transactions, last, clock,
                    env, scansStarted, requests, stage2Runs, callVars >>

ScanStep(s) ==
    \/ \E u \in Users : ScanUnavailable(s, u)
    \/ \E u \in Users : ScanList(s, u)
    \/ ScanSkip(s)
    \/ ScanNew(s)
    \/ FetchFail(s)
    \/ StoreMessage(s)
    \/ /\ scan[s].pc = "extract"
       /\ \E llm \in providerAnswers(currentId(s)) : Extract(s, llm)
    \/ FindByName(s)
    \/ FindByDomain(s)
    \/ CreateVendor(s)
    \/ Upsert(s)
    \/ MarkProcessed(s)
    \/ ScanFinish(s)

\* concurrent scanInbox calls
NextScans == \E s \in Scans : ScanStep(s)

SpecScans == Init /\ [][NextScans]_vars

\* ------------------------------------------------------------------------
\* Route handlers, one action per request
\* ------------------------------------------------------------------------
\* request bodies of POST /api/subscriptions
CreateBodies ==
    { [vendorName |-> "Acme Corp", renewalDate |-> NULL, billingCycle |-> NULL,
       amount |-> NULLNUM, currency |-> NULL],
      [vendorName |-> "acme corp", renewalDate |-> "2026-06-01T00:00:00Z",
       billingCycle |-> "yearly", amount |-> 9900, currency |-> "eur"],
      [vendorName |-> "", renewalDate |-> NULL, billingCycle |-> NULL,
       amount |-> 500, currency |-> NULL] }

\* request bodies of PATCH /api/subscriptions/[id]; NULL and NULLNUM stand for
\* a field the body does not carry
PatchBodies ==
    { [renewalDate |-> NULL, billingCycle |-> NULL, amount |-> 3000, currency |-> NULL,
       status |-> NULL, notes |-> NULL],
      [renewalDate |-> "2026-07-01", billingCycle |-> "yearly", amount |-> NULLNUM,
       currency |-> "EUR", status |-> "cancelled", notes |-> "call them"] }

\* request bodies of POST /api/vendors
VendorBodies ==
    { [name |-> "Zoom", domain |-> "gmail.com", category |-> NULL],
      [name |-> "ACME Inc", domain |-> "acme.io", category |-> "Tools"],
      [name |-> NULL, domain |-> NULL, category |-> NULL] }

\* uploaded files, as the rows Papa.parse returns under the mapped columns
CsvFiles ==
    { << [date |-> "2026-01-05", description |-> "", amount |-> "$12.00",
          vendor |-> "Slack", category |-> NULL] >>,
      << [date |-> "1/5/2026", description |-> "", amount |-> "20.00",
          vendor |-> "SLACK", category |-> NULL],
         [date |-> "2026-02-05", description |-> "", amount |-> "(5.00)",
          vendor |-> "Acme Corp", category |-> "Tools"] >>,
      << [date |-> "soon", description |-> "Figma", amount |-> "1.00",
          vendor |-> NULL, category |-> NULL] >> }

respond(route, status) == [route |-> route, status |-> status]

\* validateBody(body, createSubscriptionSchema).success
validCreate(body) ==
    /\ Len(body.vendorName) \in 1..200
    /\ body.renewalDate = NULL \/ parseIsoDateTime(body.renewalDate) # NULL
    /\ body.billingCycle \in { NULL, "monthly", "yearly", "quarterly" }
    /\ body.amount = NULLNUM \/ body.amount > 0
    /\ body.currency = NULL \/ Len(body.currency) = 3

RECURSIVE toUpperCase(_)
toUpperCase(s) == IF s = "" THEN "" ELSE upperCh(charAt(s, 1)) \o toUpperCase(Tail(s))

\* POST /api/subscriptions
CreateSubscription(u, body, allowed) ==
    LET route == "POST /api/subscriptions"
        key == vendorKey(body.vendorName)
        hits == { v \in vendors : v.normalizedName = key }
        newVendor == [id |-> Cardinality(vendors) + 1, name |-> body.vendorName,
                      normalizedName |-> key, domain |-> NULL, category |-> NULL,
                      isSaaS |-> TRUE]
        row(vendorId) ==
            [id |-> Cardinality(subscriptions) + 1, userId |-> u, vendorId |-> vendorId,
             source |-> "manual",
             renewalDate |-> IF truthy(body.renewalDate) THEN newDate(body.renewalDate, tzEast)
                             ELSE NULL,
             amount |-> IF truthyNum(body.amount) THEN body.amount ELSE NULLNUM,
             billingCycle |-> body.billingCycle, plan |-> NULL, seats |-> NULLNUM,
             currency |-> IF truthy(body.currency) THEN toUpperCase(body.currency) ELSE "USD",
             confidenceScore |-> "high", gmailMessageId |-> NULL, lastDetectedAt |-> clock,
             status |-> "active", notes |-> NULL]
        create(vendorId) ==
            IF subscriptionsOf(u, vendorId, "manual") # {}
            THEN /\ last' = respond(route, 500)
                 /\ UNCHANGED subscriptions
            ELSE /\ subscriptions' = subscriptions \cup { row(vendorId) }
                 /\ last' = respond(route, 200)
    IN  /\ idle
        /\ scansStarted + requests < MaxCalls
        /\ requests' = requests + 1
        /\ IF ~allowed
           THEN last' = respond(route, 429) /\ UNCHANGED << vendors, subscriptions >>
           ELSE IF ~validCreate(body)
           THEN last' = respond(route, 400) /\ UNCHANGED << vendors, subscriptions >>
           ELSE IF hits # {}
           THEN \E v \in hits : create(v.id) /\ UNCHANGED vendors
           ELSE IF vendorNameTaken(body.vendorName)
           THEN last' = respond(route, 500) /\ UNCHANGED << vendors, subscriptions >>
           ELSE vendors' = vendors \cup { newVendor } /\ create(newVendor.id)
        /\ UNCHANGED << gmailMessages, transactions, lastGmailSyncAt, scan, result, clock,
                        env, scansStarted, stage2Runs, callVars >>

\* PATCH /api/subscriptions/[id]
UpdateSubscription(u, id, body) ==
    LET route == "PATCH /api/subscriptions/[id]"
        found == { r \in subscriptions : r.id = id /\ r.userId = u }
        updated(r) == [r EXCEPT !.renewalDate = IF truthy(body.renewalDate)
                                                THEN newDate(body.renewalDate, tzEast) ELSE @,
                                !.billingCycle = IF body.billingCycle # NULL
                                                 THEN body.billingCycle ELSE @,
                                !.amount = IF body.amount # NULLNUM THEN body.amount ELSE @,
                                !.currency = IF body.currency # NULL THEN body.currency ELSE @,
                                !.status = IF body.status # NULL THEN body.status ELSE @,
                                !.notes = IF body.notes # NULL THEN body.notes ELSE @]
    IN  /\ idle
        /\ scansStarted + requests < MaxCalls
        /\ requests' = requests + 1
        /\ IF found = {}
           THEN last' = respond(route, 404) /\ UNCHANGED subscriptions
           ELSE /\ subscriptions' = { IF r.id = id THEN updated(r) ELSE r : r \in subscriptions }
                /\ last' = respond(route, 200)
        /\ UNCHANGED << gmailMessages, vendors, transactions, lastGmailSyncAt, scan, result,
                        clock, env, scansStarted, stage2Runs, callVars >>

\* POST /api/vendors
CreateVendorRoute(body) ==
    LET route == "POST /api/vendors"
        existing == { v \in vendors : v.name = body.name
                                      \/ v.normalizedName = vendorKey(body.name) }
        row == [id |-> Cardinality(vendors) + 1, name |-> body.name,
                normalizedName |-> vendorKey(body.name), domain |-> body.domain,
                category |-> body.category, isSaaS |-> TRUE]
    IN  /\ idle
        /\ scansStarted + requests < MaxCalls
        /\ requests' = requests + 1
        /\ IF ~truthy(body.name)
           THEN last' = respond(route, 400) /\ UNCHANGED vendors
           ELSE IF existing # {}
           THEN last' = respond(route, 409) /\ UNCHANGED vendors
           ELSE vendors' = vendors \cup { row } /\ last' = respond(route, 200)
        /\ UNCHANGED << gmailMessages, subscriptions, transactions, lastGmailSyncAt, scan,
                        result, clock, env, scansStarted, stage2Runs, callVars >>

\* vendor.upsert by name for one summary: the Vendor table after it
upsertVendor(vs, summary) ==
    IF \E v \in vs : v.name = summary.vendorName
    THEN { IF v.name = summary.vendorName
           THEN [v EXCEPT !.category = summary.category, !.isSaaS = summary.isSaaS]
           ELSE v : v \in vs }
    ELSE vs \cup { [id |-> Cardinality(vs) + 1, name |-> summary.vendorName,
                    normalizedName |-> summary.normalizedName, domain |-> NULL,
                    category |-> summary.category, isSaaS |-> summary.isSaaS] }

RECURSIVE upsertVendors(_, _)
upsertVendors(vs, summaries) ==
    IF summaries = << >> THEN vs
    ELSE upsertVendors(upsertVendor(vs, Head(summaries)), Tail(summaries))

RECURSIVE datesOf(_)
datesOf(txs) == IF txs = << >> THEN << >> ELSE << Head(txs).date >> \o datesOf(Tail(txs))

RECURSIVE createTransactions(_, _, _, _, _)
\* transaction.create for each transaction of each summary, in order
createTransactions(table, vs, u, parsed, summaries) ==
    IF summaries = << >> THEN table
    ELSE LET own == ofVendor(parsed, Head(summaries).normalizedName)
             vendor == CHOOSE v \in vs : v.name = Head(summaries).vendorName
             frequency == detectFrequency(datesOf(own))
             rows == { [id |-> Cardinality(table) + i, userId |-> u, vendorId |-> vendor.id,
                        amount |-> own[i].amount, date |-> own[i].date,
                        frequency |-> frequency,
                        rawDescription |-> own[i].rawDescription] : i \in 1..Len(own) }
         IN  createTransactions(table \cup rows, vs, u, parsed, Tail(summaries))

\* POST /api/upload
UploadCsv(u, file) ==
    LET route == "POST /api/upload"
    IN  /\ idle
        /\ scansStarted + requests < MaxCalls
        /\ requests' = requests + 1
        /\ \E parsed \in { parseRows(file, tzEast) } :
             IF parsed = << >>
             THEN last' = respond(route, 400) /\ UNCHANGED << vendors, transactions >>
             ELSE \E summaries \in { calculateVendorSummaries(parsed) } :
                    \E vs \in { upsertVendors(vendors, summaries) } :
                       /\ vendors' = vs
                       /\ transactions' = createTransactions(transactions, vs, u, parsed,
                                                              summaries)
                       /\ last' = respond(route, 200)
        /\ UNCHANGED << gmailMessages, subscriptions, lastGmailSyncAt, scan, result, clock,
                        env, scansStarted, stage2Runs, callVars >>

Route ==
    \/ \E u \in Users, body \in CreateBodies, allowed \in BOOLEAN :
         CreateSubscription(u, body, allowed)
    \/ \E u \in Users, id \in 1..(Cardinality(subscriptions) + 1), body \in PatchBodies :
         UpdateSubscription(u, id, body)
    \/ \E body \in VendorBodies : CreateVendorRoute(body)
    \/ \E u \in Users, file \in CsvFiles : UploadCsv(u, file)

\* requests and scans one at a time
Next == ScanStep(1) \/ Route

Spec == Init /\ [][Next]_vars

\* ------------------------------------------------------------------------
\* A scan of inboxes that were scanned before: the store holds what an
\* earlier scan of u1's inbox left when it held the messages o1 (from
\* slack.com) and o2 (from figma.com), both deleted from the inbox since
\* ------------------------------------------------------------------------
EarlierVendors ==
    { [id |-> 1, name |-> "Slack", normalizedName |-> vendorKey("Slack"),
       domain |-> "slack.com", category |-> getVendorCategory("slack.com"),
       isSaaS |-> TRUE],
      [id |-> 2, name |-> "Figma", normalizedName |-> vendorKey("Figma"),
       domain |-> "figma.com", category |-> getVendorCategory("figma.com"),
       isSaaS |-> TRUE] }

EarlierSubscriptions ==
    { [id |-> 1, userId |-> "u1", vendorId |-> 1, source |-> "gmail",
       renewalDate |-> "2025-03-01", amount |-> 3500, billingCycle |-> "monthly",
       plan |-> "Standard", seats |-> 4, currency |-> "USD",
       confidenceScore |-> "high", gmailMessageId |-> "o1", lastDetectedAt |-> 1,
       status |-> "active", notes |-> NULL],
      [id |-> 2, userId |-> "u1", vendorId |-> 2, source |-> "gmail",
       renewalDate |-> "2025-06-01", amount |-> 1200, billingCycle |-> "monthly",
       plan |-> "Team", seats |-> 2, currency |-> "USD",
       confidenceScore |-> "medium", gmailMessageId |-> "o2", lastDetectedAt |-> 2,
       status |-> "active", notes |-> NULL] }

EarlierMessages ==
    { [id |-> 1, userId |-> "u1", gmailId |-> "o1", senderDomain |-> "slack.com",
       isRenewal |-> TRUE, isProcessed |-> TRUE],
      [id |-> 2, userId |-> "u1", gmailId |-> "o2", senderDomain |-> "figma.com",
       isRenewal |-> TRUE, isProcessed |-> TRUE] }

InitRescan ==
    /\ gmailMessages = EarlierMessages
    /\ vendors = EarlierVendors
    /\ subscriptions = EarlierSubscriptions
    /\ transactions = {}
    /\ lastGmailSyncAt = [u \in Users |-> IF u = "u1" THEN 3 ELSE NULLNUM]
    /\ scan = [s \in Scans |-> IdleScan]
    /\ result = [s \in Scans |-> NULLREC]
    /\ last = NULLREC
    /\ clock = 3
    /\ tzEast \in BOOLEAN
    /\ analysis = [m \in MailIds |->
                     [stage1 |-> stage1(Mailbox[m]),
                      regexResult |-> extractWithRegex(Mailbox[m].subject, Mailbox[m].body,
                                                       tzEast)]]
    /\ scansStarted = 0
    /\ requests = 0
    /\ stage2Runs = [m \in MailIds |-> 0]
    /\ resolveIn = NO_CALL
    /\ resolveOut = NO_CALL
    /\ callIn = NO_CALL
    /\ callOut = NO_CALL
    /\ retry = NO_CALL
    /\ negotiations = {}
    /\ savings = {}
    /\ outbox = << >>
    /\ handlers = << >>
    /\ reply = NO_CALL
    /\ handled = 0

NextRescan == ScanStep(1)

SpecRescan == InitRescan /\ [][NextRescan]_vars

\* ------------------------------------------------------------------------
\* Scans after a CSV upload: the store holds what POST /api/upload by u1
\* left for a file naming the vendors SLACK and Acme Corp; a scanInbox call
\* that has started runs on
\* ------------------------------------------------------------------------
UploadedFile ==
    << [date |-> "1/5/2026", description |-> "", amount |-> "20.00",
        vendor |-> "SLACK", category |-> NULL],
       [date |-> "2026-02-05", description |-> "", amount |-> "(5.00)",
        vendor |-> "Acme Corp", category |-> "Tools"] >>

InitUploaded ==
    /\ tzEast \in BOOLEAN
    /\ \E parsed \in { parseRows(UploadedFile, tzEast) } :
         \E summaries \in { calculateVendorSummaries(parsed) } :
           \E vs \in { upsertVendors({}, summaries) } :
              /\ vendors = vs
              /\ transactions = createTransactions({}, vs, "u1", parsed, summaries)
    /\ gmailMessages = {}
    /\ subscriptions = {}
    /\ lastGmailSyncAt = [u \in Users |-> NULLNUM]
    /\ scan = [s \in Scans |-> IdleScan]
    /\ result = [s \in Scans |-> NULLREC]
    /\ last = respond("POST /api/upload", 200)
    /\ clock = 1
    /\ analysis = [m \in MailIds |->
                     [stage1 |-> stage1(Mailbox[m]),
                      regexResult |-> extractWithRegex(Mailbox[m].subject, Mailbox[m].body,
                                                       tzEast)]]
    /\ scansStarted = 0
    /\ requests = 0
    /\ stage2Runs = [m \in MailIds |-> 0]
    /\ resolveIn = NO_CALL
    /\ resolveOut = NO_CALL
    /\ callIn = NO_CALL
    /\ callOut = NO_CALL
    /\ retry = NO_CALL
    /\ negotiations = {}
    /\ savings = {}
    /\ outbox = << >>
    /\ handlers = << >>
    /\ reply = NO_CALL
    /\ handled = 0

NextUploaded == ScanStep(1)

\* a scanInbox call that has started runs on: while it is in progress it
\* takes another step, and every step of a call changes scan.  The first
\* disjunct is no step of its own (a scan in progress differs from the idle
\* one); it gives the enabling condition without a step being computed
Advance ==
    /\ scan[1].pc # "idle"
    /\ \/ /\ scan' = [s \in Scans |-> IdleScan]
          /\ UNCHANGED << tables, result, last, clock, env, scansStarted, requests,
                          stage2Runs, callVars >>
       \/ scan' # scan

SpecUploaded == InitUploaded /\ [][NextUploaded]_vars /\ WF_vars(Advance)

\* ------------------------------------------------------------------------
\* resolveVendorName called on its own
\* ------------------------------------------------------------------------
ResolveInputs ==
    [ llmVendorName : { NULL, "", "  ", "slack", "Acme Corp", "FIGMA" },
      senderDomain : { NULL, "gmail.com", "slack.com", "acme.io" },
      subject : { NULL, "Your Figma invoice", "Weekly digest", "Slack and Zoom" } ]

InitResolve ==
    /\ StoreInit
    /\ resolveIn \in ResolveInputs
    /\ resolveOut = NO_CALL
    /\ callIn = NO_CALL
    /\ callOut = NO_CALL
    /\ retry = NO_CALL
    /\ negotiations = {}
    /\ savings = {}
    /\ outbox = << >>
    /\ handlers = << >>
    /\ reply = NO_CALL
    /\ handled = 0

ResolveCall ==
    /\ resolveOut = NO_CALL
    /\ resolveOut' = resolveVendorName(resolveIn.llmVendorName, resolveIn.senderDomain,
                                       resolveIn.subject)
    /\ UNCHANGED << storeVars, resolveIn, callIn, callOut, retryVars, negotiationVars >>

NextResolve == ResolveCall

SpecResolve == InitResolve /\ [][NextResolve]_vars

\* ------------------------------------------------------------------------
\* The pure functions called on their own: callIn names the function and
\* holds its arguments, callOut holds what the call returned or threw
\* ------------------------------------------------------------------------
ExtractCalls ==
    [ fn : { "extractWithRegex" },
      subject : { NULL, "Notion Billing Plan", "Weekly digest" },
      body : { NULL, "", "Plan: Notion Team Seats: 12", "Billed monthly",
               "Billed yearly", "annual plan, $10 per month", "Amount: $0.00",
               "Seats: 0", "Amount: 120.00 EUR Renewal date: March 1, 2026",
               "renews on March 1, 2026" } ]

\* 2024-01-15 and the days 30, 45, 46, 100, 120, 121, 200, 400, 401 and 500
\* days after it
FrequencyDates ==
    { "2024-01-15", "2024-02-14", "2024-02-29", "2024-03-01", "2024-04-24",
      "2024-05-14", "2024-05-15", "2024-08-02", "2025-02-18", "2025-02-19",
      "2025-05-29" }

FrequencyCalls ==
    [ fn : { "detectFrequency" },
      dates : { << >> } \cup { << a >> : a \in FrequencyDates }
              \cup { << a, b >> : a, b \in FrequencyDates }
              \cup { << a, b, c >> :
                       a, b, c \in { "2024-01-15", "2024-02-14", "2024-04-24",
                                     "2025-05-29" } } ]

\* the instants new Date() gives in the calls below: midnight or noon of a day
Nows ==
    [ day : { "2024-01-10", "2024-02-15", "2024-12-15", "2025-06-01" },
      half : { 0, 1 } ]

RenewalCalls ==
    [ fn : { "calculateRenewalDate" },
      lastTransactionDate : { "2024-01-15", "2024-01-31", "2023-11-30", "2024-02-29" },
      frequency : { "monthly", "quarterly", "annual", "one-time" },
      firstTransactionDate : { NULL, "2024-01-15", "2023-03-29", "2024-03-31" },
      now : Nows ]

\* elapsed is the number of half days between the two readings of new Date()
RenewalInfoCalls ==
    [ fn : { "getRenewalInfo" },
      transactionDates :
          { << >> } \cup { << a >> : a \in { "2024-01-10", "2024-11-15" } }
          \cup { << a, b >> : a, b \in { "2023-03-29", "2024-01-10", "2024-11-15" } },
      frequency : { NULL, "monthly", "annual", "one-time" },
      now : Nows,
      elapsed : { 0, 1 } ]

\* the headers a file may have, in file order
HeaderPool == << "Trans Date", "Memo", "Merchant Name", "Debit Amount", "Class", "Notes" >>

\* the header lists: the pool with any of its headers left out
HeaderLists ==
    { CHOOSE q \in [1..Cardinality(keep) -> { HeaderPool[i] : i \in keep }] :
          \A i, j \in keep :
              i < j => \E a, b \in 1..Cardinality(keep) :
                          a < b /\ q[a] = HeaderPool[i] /\ q[b] = HeaderPool[j] :
        keep \in SUBSET (1..Len(HeaderPool)) }

\* the rows of the files, as the values under each header of the pool
CsvRows ==
    [ paid |-> << [date |-> "2026-01-05", memo |-> "Slack subscription", amount |-> "$12.00"],
                  [date |-> "1/5/2026", memo |-> "PAYMENT acme corp", amount |-> "(5.00)"] >>,
      malformed |-> [i \in 1..12 |->
                        IF i = 6 THEN [date |-> "2026-02-05", memo |-> "Figma", amount |-> "1.00"]
                        ELSE [date |-> "soon", memo |-> "x", amount |-> "1.00"]],
      signed |-> << [date |-> "2026-03-01", memo |-> "Zoom", amount |-> "-12.00"],
                    [date |-> "2026-03-02", memo |-> "Zoom", amount |-> "0.00"],
                    [date |-> "2026-03-03", memo |-> "Zoom", amount |-> "n/a"],
                    [date |-> "soon", memo |-> "Zoom", amount |-> "3.00"],
                    [date |-> "2026-03-05", memo |-> "Zoom", amount |-> "--5.00"],
                    [date |-> "2026-03-06", memo |-> "Zoom", amount |-> ""] >>,
      none |-> << >> ]

\* row k of a file kind as Papa gives it: a function on the file's headers
csvRow(kind, k, fields) ==
    [ h \in { fields[i] : i \in 1..Len(fields) } |->
        IF h = "Trans Date" THEN CsvRows[kind][k].date
        ELSE IF h = "Memo" THEN CsvRows[kind][k].memo
        ELSE IF h = "Merchant Name" THEN ""
        ELSE IF h = "Debit Amount" THEN CsvRows[kind][k].amount
        ELSE IF h = "Class" THEN "Tools"
        ELSE "n/a" ]

\* n errors of Papa.parse, one per row
papaErrors(n) == [k \in 1..n |-> [row |-> k - 1, message |-> "Too many fields"]]

CsvCalls ==
    [ fn : { "parseCSV" },
      fields : HeaderLists,
      rows : { "paid", "malformed", "signed", "none" },
      errors : { 0, 1, 10 } ]

\* amount cells: currency sign and thousands separator, accounting
\* parentheses, minus signs, text, nothing
AmountStrings ==
    { "$1,234.56", "(1234.56)", "-1234.56", "12", ".5", "0", "0.00", "-0", "n/a", "",
      "(-5.00)", "-(5.00)", "- 3", "--5.00", "(--5.00)", "+7.25", "$ -8" }

AmountCalls == [ fn : { "parseAmount" }, value : AmountStrings ]

\* vendor names: plain, padded, with runs of spaces, with punctuation next to
\* a space or at an end
VendorNames ==
    { "Slack", "  Slack  ", "Acme   Corp", "Acme, Inc.", "AT&T", "A & B", "Zoom -",
      "@ Home", "Slack (Pro)", "a_b", "", "   ", "!", "Node.JS 2" }

NormalizeCalls == [ fn : { "normalizeVendorName" }, name : VendorNames ]

\* parsed transactions of two vendors
SummaryTransactions ==
    { [ date |-> d.date, vendorName |-> v.vendorName,
        normalizedVendorName |-> v.normalizedVendorName, amount |-> a,
        rawDescription |-> v.vendorName, isSaaS |-> d.isSaaS, category |-> v.category ] :
        d \in { [ date |-> "2026-01-05", isSaaS |-> FALSE ],
                [ date |-> "2026-02-05", isSaaS |-> FALSE ],
                [ date |-> "2026-02-05", isSaaS |-> TRUE ] },
        v \in { [ vendorName |-> "Slack", normalizedVendorName |-> "slack",
                  category |-> "Communication" ],
                [ vendorName |-> "Acme Corp", normalizedVendorName |-> "acme corp",
                  category |-> NULL ] },
        a \in { 500, 1200 } }

\* the lists of at most MaxTransactions of them
MaxTransactions == 3

SummaryCalls ==
    [ fn : { "calculateVendorSummaries" },
      transactions : UNION { [1..n -> SummaryTransactions] : n \in 0..MaxTransactions } ]

\* the rows a Vendor table may hold, with the vendorType stored on each
VendorTypeRows ==
    [ name : { "Netflix" }, normalizedName : { "netflix" },
      vendorType : { NULL, "NEGOTIABLE", "FIXED_PLAN" } ]
    \cup [ name : { "Netflix Party" }, normalizedName : { "netflix party" },
           vendorType : { NULL, "NEGOTIABLE" } ]
    \cup [ name : { "Slack" }, normalizedName : { "slack" },
           vendorType : { NULL, "FIXED_PLAN" } ]
    \cup [ name : { "Acme Corp" }, normalizedName : { "acme corp" },
           vendorType : { NULL, "FIXED_PLAN" } ]

\* the Vendor tables: Vendor.name is unique
VendorTypeTables ==
    { t \in SUBSET VendorTypeRows : \A a, b \in t : a.name = b.name => a = b }

ClassifyCalls ==
    [ fn : { "classifyVendor" },
      vendorName : { "Netflix", " netflix ", "Netflix AWS", "Slack", "Acme Corp", "Zed" },
      category : { NULL, "CRM" },
      table : VendorTypeTables ]
    \cup [ fn : { "classifyVendorSync" },
           vendorName : { "Netflix", " netflix ", "Netflix AWS", "Slack", "Acme Corp", "Zed" },
           category : { NULL, "CRM" } ]

PureCalls ==
    ClassifyCalls \cup SummaryCalls \cup ExtractCalls \cup FrequencyCalls \cup RenewalCalls \cup RenewalInfoCalls \cup CsvCalls
        \cup AmountCalls \cup NormalizeCalls

InitCalls ==
    /\ StoreInit
    /\ resolveIn = NO_CALL
    /\ resolveOut = NO_CALL
    /\ callIn \in PureCalls
    /\ callOut = NO_CALL
    /\ retry = NO_CALL
    /\ negotiations = {}
    /\ savings = {}
    /\ outbox = << >>
    /\ handlers = << >>
    /\ reply = NO_CALL
    /\ handled = 0

ExtractWithRegexCall ==
    /\ callOut = NO_CALL
    /\ callIn.fn = "extractWithRegex"
    /\ callOut' = [ returned |-> extractWithRegex(callIn.subject, callIn.body, tzEast) ]
    /\ UNCHANGED << storeVars, resolveIn, resolveOut, callIn, retryVars, negotiationVars >>

DetectFrequencyCall ==
    /\ callOut = NO_CALL
    /\ callIn.fn = "detectFrequency"
    /\ callOut' = [ returned |-> detectFrequency(callIn.dates) ]
    /\ UNCHANGED << storeVars, resolveIn, resolveOut, callIn, retryVars, negotiationVars >>

CalculateRenewalDateCall ==
    /\ callOut = NO_CALL
    /\ callIn.fn = "calculateRenewalDate"
    /\ callOut' = [ returned |->
                      calculateRenewalDate(callIn.lastTransactionDate, callIn.frequency,
                                           callIn.firstTransactionDate,
                                           getTimeHalves(callIn.now)) ]
    /\ UNCHANGED << storeVars, resolveIn, resolveOut, callIn, retryVars, negotiationVars >>

GetRenewalInfoCall ==
    /\ callOut = NO_CALL
    /\ callIn.fn = "getRenewalInfo"
    /\ callOut' = getRenewalInfo(callIn.transactionDates, callIn.frequency,
                                 getTimeHalves(callIn.now),
                                 getTimeHalves(callIn.now) + callIn.elapsed)
    /\ UNCHANGED << storeVars, resolveIn, resolveOut, callIn, retryVars, negotiationVars >>

\* the Papa result of the file of a parseCSV call
papaResult ==
    [ fields |-> callIn.fields,
      data |-> [k \in 1..Len(CsvRows[callIn.rows]) |-> csvRow(callIn.rows, k, callIn.fields)],
      errors |-> papaErrors(callIn.errors) ]

ParseCsvCall ==
    /\ callOut = NO_CALL
    /\ callIn.fn = "parseCSV"
    /\ callOut' = [ returned |-> parseCSV(papaResult, tzEast) ]
    /\ UNCHANGED << storeVars, resolveIn, resolveOut, callIn, retryVars, negotiationVars >>

ParseAmountCall ==
    /\ callOut = NO_CALL
    /\ callIn.fn = "parseAmount"
    /\ callOut' = [ returned |-> parseAmount(callIn.value) ]
    /\ UNCHANGED << storeVars, resolveIn, resolveOut, callIn, retryVars, negotiationVars >>

\* normalizeVendorName(name), and normalizeVendorName of what it returned
NormalizeVendorNameCall ==
    /\ callOut = NO_CALL
    /\ callIn.fn = "normalizeVendorName"
    /\ \E key \in { normalizeVendorName(callIn.name) } :
          callOut' = [ returned |-> key, again |-> normalizeVendorName(key) ]
    /\ UNCHANGED << storeVars, resolveIn, resolveOut, callIn, retryVars, negotiationVars >>

CalculateVendorSummariesCall ==
    /\ callOut = NO_CALL
    /\ callIn.fn = "calculateVendorSummaries"
    /\ callOut' = [ returned |-> calculateVendorSummaries(callIn.transactions) ]
    /\ UNCHANGED << storeVars, resolveIn, resolveOut, callIn, retryVars, negotiationVars >>

\* classifyVendor: the lookup and what the function returns after it
ClassifyVendorCall ==
    /\ callOut = NO_CALL
    /\ callIn.fn = "classifyVendor"
    /\ \E lookup \in findFirstVendorType(callIn.table, callIn.vendorName) :
           callOut' = [ returned |-> classifyVendor(callIn.vendorName, callIn.category, lookup),
                        vendor |-> lookup ]
    /\ UNCHANGED << storeVars, resolveIn, resolveOut, callIn, retryVars, negotiationVars >>

ClassifyVendorSyncCall ==
    /\ callOut = NO_CALL
    /\ callIn.fn = "classifyVendorSync"
    /\ callOut' = [ returned |-> classifyVendorSync(callIn.vendorName, callIn.category) ]
    /\ UNCHANGED << storeVars, resolveIn, resolveOut, callIn, retryVars, negotiationVars >>

NextCalls ==
    \/ ParseCsvCall
    \/ ClassifyVendorCall
    \/ ClassifyVendorSyncCall
    \/ CalculateVendorSummariesCall
    \/ ParseAmountCall
    \/ NormalizeVendorNameCall
    \/ ExtractWithRegexCall
    \/ DetectFrequencyCall
    \/ CalculateRenewalDateCall
    \/ GetRenewalInfoCall

SpecCalls == InitCalls /\ [][NextCalls]_vars

\* ------------------------------------------------------------------------
\* withRetry called on its own: the wrapped function returns or throws on
\* each call as it likes
\* ------------------------------------------------------------------------
\* the config arguments of the calls: none, both wrappers, a cap reached at
\* the second attempt, no attempt at all
RetryConfigs ==
    { [ x \in {} |-> 0 ], LLM_CONFIG, GMAIL_CONFIG,
      [ maxAttempts |-> 4, maxDelayMs |-> 2000 ],
      [ maxAttempts |-> 0 ] }

\* what the wrapped function may throw
FnErrors ==
    { [ instance |-> "TypeError", message |-> "fetch failed" ],
      [ instance |-> "Error", message |-> "429 Too Many Requests" ],
      [ instance |-> "Error", message |-> "Request timeout" ],
      [ instance |-> "Error", message |-> "401 Unauthorized (429)" ],
      [ instance |-> "Error", message |-> "403 Forbidden: timeout" ],
      [ instance |-> "Error", message |-> "Invalid value 501: the range is [1, 500]" ],
      [ instance |-> "Error", message |-> "Bad input" ],
      [ instance |-> "other", message |-> NULL ] }

\* Math.random() in quarters
MathRandom == { 0, 1, 3 }

InitRetry ==
    /\ StoreInit
    /\ resolveIn = NO_CALL
    /\ resolveOut = NO_CALL
    /\ callIn = NO_CALL
    /\ callOut = NO_CALL
    /\ retry \in { [ pc |-> "loop", config |-> finalConfig(config), attempt |-> 1,
                      calls |-> 0, sleeps |-> 0, delay |-> NULLNUM,
                      lastError |-> NULLREC, outcome |-> NULLREC ] :
                    config \in RetryConfigs }
    /\ negotiations = {}
    /\ savings = {}
    /\ outbox = << >>
    /\ handlers = << >>
    /\ reply = NO_CALL
    /\ handled = 0

\* return await fn(): the call succeeds
RetryReturn ==
    /\ retry.pc = "loop"
    /\ retry.attempt <= retry.config.maxAttempts
    /\ retry' = [ retry EXCEPT !.pc = "returned", !.calls = @ + 1,
                                !.outcome = [ returned |-> "result" ] ]
    /\ UNCHANGED << storeVars, resolveIn, resolveOut, callIn, callOut, negotiationVars >>

\* fn() throws on the last attempt or an error that is not retryable: throw error
RetryRethrow ==
    /\ retry.pc = "loop"
    /\ retry.attempt <= retry.config.maxAttempts
    /\ \E error \in FnErrors :
          /\ retry.attempt = retry.config.maxAttempts \/ ~shouldRetry(retry.config, error)
          /\ retry' = [ retry EXCEPT !.pc = "threw", !.calls = @ + 1,
                                      !.lastError = error,
                                      !.outcome = [ thrown |-> error ] ]
    /\ UNCHANGED << storeVars, resolveIn, resolveOut, callIn, callOut, negotiationVars >>

\* fn() throws a retryable error before the last attempt: await sleep(delay)
RetrySleep ==
    /\ retry.pc = "loop"
    /\ retry.attempt <= retry.config.maxAttempts
    /\ \E error \in FnErrors, random \in MathRandom :
          /\ retry.attempt # retry.config.maxAttempts
          /\ shouldRetry(retry.config, error)
          /\ retry' = [ retry EXCEPT !.pc = "sleeping", !.calls = @ + 1,
                                      !.sleeps = @ + 1, !.lastError = error,
                                      !.delay = calculateDelay(retry.attempt, retry.config,
                                                               random) ]
    /\ UNCHANGED << storeVars, resolveIn, resolveOut, callIn, callOut, negotiationVars >>

\* the timer fires: attempt++
RetryWake ==
    /\ retry.pc = "sleeping"
    /\ retry' = [ retry EXCEPT !.pc = "loop", !.attempt = @ + 1 ]
    /\ UNCHANGED << storeVars, resolveIn, resolveOut, callIn, callOut, negotiationVars >>

\* the loop ends without a call having returned or thrown: throw lastError
RetryExhausted ==
    /\ retry.pc = "loop"
    /\ retry.attempt > retry.config.maxAttempts
    /\ retry' = [ retry EXCEPT !.pc = "threw", !.outcome = [ thrown |-> retry.lastError ] ]
    /\ UNCHANGED << storeVars, resolveIn, resolveOut, callIn, callOut, negotiationVars >>

NextRetry ==
    \/ RetryReturn
    \/ RetryRethrow
    \/ RetrySleep
    \/ RetryWake
    \/ RetryExhausted

\* the promises of fn() and of sleep() settle
SpecRetry == InitRetry /\ [][NextRetry]_vars /\ WF_vars(NextRetry)

\* ------------------------------------------------------------------------
\* Negotiation emails: PUT /api/negotiate, POST /api/send-email and
\* PUT /api/savings/update, one action per database or mail call.  The store
\* holds the drafts POST /api/negotiate created.
\* ------------------------------------------------------------------------
\* JavaScript truthiness of a JSON value, given as its text
truthyJson(v) == v \notin { "false", "null", "undefined", "0", "''" }

\* isValidEmail: /^[^\s@]+@[^\s@]+\.[^\s@]+$/
isValidEmail(email) ==
    \E at \in { indexOfFrom(email, "@", 1) } :
        /\ at > 1
        /\ ~includes(SubSeq(email, at + 1, Len(email)), "@")
        /\ \A i \in 1..Len(email) : ~isSpace(charAt(email, i))
        /\ \E k \in (at + 2)..(Len(email) - 1) : charAt(email, k) = "."

Handlers == { 1, 2 }

\* handler calls in total
MaxHandled == 3

IdleHandler == [ route |-> NULL, pc |-> "idle" ]

\* getServerSession: a signed-in user or none
Sessions == { "u1", NULL }

\* bodies of POST /api/send-email; approved is the JSON text of the value
SendBodies ==
    [ negotiationId : { "n1", "n2", "n9" },
      recipientEmail : { "cfo@vendor.com", "cfo at vendor", NULL },
      approved : { "true", "false", "undefined", "'false'" },
      estimatedSavings : { NULLNUM, 100 } ]

\* bodies of PUT /api/negotiate
DraftBodies ==
    [ negotiationId : { "n1", "n2" }, subject : { "Renewal" }, body : { "Hi" },
      recipientEmail : { "sales@vendor.com" } ]

\* bodies of PUT /api/savings/update
SavingBodies == [ savingId : { "s1", "s9" }, confirmedAmount : { 0, 50 } ]

\* the ids prisma gives the Saving rows, in creation order
SavingIds == << "s1", "s2", "s3" >>

DraftNegotiations ==
    { [ id |-> "n1", userId |-> "u1", vendorName |-> "Slack",
        draftEmail |-> "Subject: Pricing\n\nHello", finalEmail |-> NULL,
        recipientEmail |-> NULL, status |-> "draft", sentAt |-> NULLNUM,
        gmailMessageId |-> NULL ],
      [ id |-> "n2", userId |-> "u2", vendorName |-> "Figma",
        draftEmail |-> "Subject: Seats\n\nHello", finalEmail |-> NULL,
        recipientEmail |-> NULL, status |-> "draft", sentAt |-> NULLNUM,
        gmailMessageId |-> NULL ] }

InitNegotiation ==
    /\ StoreInit
    /\ resolveIn = NO_CALL
    /\ resolveOut = NO_CALL
    /\ callIn = NO_CALL
    /\ callOut = NO_CALL
    /\ retry = NO_CALL
    /\ negotiations = DraftNegotiations
    /\ savings = {}
    /\ outbox = << >>
    /\ handlers = [ h \in Handlers |-> IdleHandler ]
    /\ reply = NO_CALL
    /\ handled = 0

\* NextResponse.json(..., { status }) of handler h
replyWith(h, route, status) ==
    /\ reply' = [ route |-> route, status |-> status ]
    /\ handlers' = [ handlers EXCEPT ![h] = IdleHandler ]

\* prisma.negotiation.findUnique({ where: { id } })
findNegotiation(id) ==
    IF \E n \in negotiations : n.id = id
    THEN CHOOSE n \in negotiations : n.id = id
    ELSE NULLREC

\* POST /api/send-email up to the negotiation lookup: session, approval
\* gate, recipient check, isAnyEmailMethodAvailable
SendEmailStart(h) ==
    /\ handlers[h].pc = "idle"
    /\ handled < MaxHandled
    /\ handled' = handled + 1
    /\ \E user \in Sessions, body \in SendBodies, hasEmailMethod \in BOOLEAN :
          IF user = NULL THEN replyWith(h, "send-email", 401)
          ELSE IF ~truthyJson(body.approved) THEN replyWith(h, "send-email", 400)
          ELSE IF ~truthy(body.recipientEmail) \/ ~isValidEmail(body.recipientEmail)
          THEN replyWith(h, "send-email", 400)
          ELSE IF ~hasEmailMethod THEN replyWith(h, "send-email", 500)
          ELSE /\ handlers' = [ handlers EXCEPT ![h] =
                                  [ route |-> "send-email", pc |-> "find",
                                    userId |-> user, body |-> body,
                                    emailContent |-> NULL ] ]
               /\ UNCHANGED reply
    /\ UNCHANGED << storeVars, resolveIn, resolveOut, callIn, callOut, retryVars,
                    negotiations, savings, outbox >>

\* prisma.negotiation.findUnique, the ownership and status checks, and the
\* email content read from the row
SendEmailFind(h) ==
    /\ handlers[h].pc = "find"
    /\ handlers[h].route = "send-email"
    /\ \E negotiation \in { findNegotiation(handlers[h].body.negotiationId) } :
          IF negotiation = NULLREC THEN replyWith(h, "send-email", 404)
          ELSE IF negotiation.userId # handlers[h].userId
          THEN replyWith(h, "send-email", 404)
          ELSE IF negotiation.status = "sent" THEN replyWith(h, "send-email", 400)
          ELSE /\ handlers' = [ handlers EXCEPT ![h].pc = "send",
                                  ![h].emailContent = orElse(negotiation.finalEmail,
                                                             negotiation.draftEmail) ]
               /\ UNCHANGED reply
    /\ UNCHANGED << storeVars, resolveIn, resolveOut, callIn, callOut, retryVars,
                    negotiations, savings, outbox, handled >>

\* sendEmail: delivered, or failed on Gmail and SMTP.  A delivered mail is
\* kept with the request that sent it
SendEmailSend(h) ==
    /\ handlers[h].pc = "send"
    /\ \E success \in BOOLEAN :
          IF success
          THEN /\ outbox' = Append(outbox,
                                   [ to |-> handlers[h].body.recipientEmail,
                                     content |-> handlers[h].emailContent,
                                     negotiationId |-> handlers[h].body.negotiationId,
                                     userId |-> handlers[h].userId,
                                     approved |-> handlers[h].body.approved ])
               /\ handlers' = [ handlers EXCEPT ![h].pc = "update" ]
               /\ UNCHANGED reply
          ELSE replyWith(h, "send-email", 500) /\ UNCHANGED outbox
    /\ UNCHANGED << storeVars, resolveIn, resolveOut, callIn, callOut, retryVars,
                    negotiations, savings, handled >>

\* prisma.negotiation.update: the audit trail
SendEmailUpdate(h) ==
    /\ handlers[h].pc = "update"
    /\ handlers[h].route = "send-email"
    /\ negotiations' =
          { IF n.id = handlers[h].body.negotiationId
            THEN [ n EXCEPT !.status = "sent", !.sentAt = clock,
                            !.recipientEmail = handlers[h].body.recipientEmail,
                            !.finalEmail = handlers[h].emailContent,
                            !.gmailMessageId = "sent-message" ]
            ELSE n : n \in negotiations }
    /\ IF truthyNum(handlers[h].body.estimatedSavings)
          /\ handlers[h].body.estimatedSavings > 0
       THEN handlers' = [ handlers EXCEPT ![h].pc = "saving" ] /\ UNCHANGED reply
       ELSE replyWith(h, "send-email", 200)
    /\ UNCHANGED << storeVars, resolveIn, resolveOut, callIn, callOut, retryVars,
                    savings, outbox, handled >>

\* prisma.saving.create
SendEmailSaving(h) ==
    /\ handlers[h].pc = "saving"
    /\ handlers[h].route = "send-email"
    /\ savings' = savings \cup
          { [ id |-> SavingIds[Cardinality(savings) + 1],
              negotiationId |-> handlers[h].body.negotiationId,
              estimatedAmount |-> handlers[h].body.estimatedSavings,
              confirmedAmount |-> NULLNUM ] }
    /\ replyWith(h, "send-email", 200)
    /\ UNCHANGED << storeVars, resolveIn, resolveOut, callIn, callOut, retryVars,
                    negotiations, outbox, handled >>

\* PUT /api/negotiate up to the update: session, findUnique, ownership and
\* status checks
UpdateDraftFind(h) ==
    /\ handlers[h].pc = "idle"
    /\ handled < MaxHandled
    /\ handled' = handled + 1
    /\ \E user \in Sessions, body \in DraftBodies :
          IF user = NULL THEN replyWith(h, "negotiate", 401)
          ELSE \E negotiation \in { findNegotiation(body.negotiationId) } :
                 IF negotiation = NULLREC THEN replyWith(h, "negotiate", 404)
                 ELSE IF negotiation.userId # user THEN replyWith(h, "negotiate", 404)
                 ELSE IF negotiation.status = "sent" THEN replyWith(h, "negotiate", 400)
                 ELSE /\ handlers' = [ handlers EXCEPT ![h] =
                                         [ route |-> "negotiate", pc |-> "update",
                                           userId |-> user, body |-> body ] ]
                      /\ UNCHANGED reply
    /\ UNCHANGED << storeVars, resolveIn, resolveOut, callIn, callOut, retryVars,
                    negotiations, savings, outbox >>

\* prisma.negotiation.update of PUT /api/negotiate
UpdateDraftWrite(h) ==
    /\ handlers[h].pc = "update"
    /\ handlers[h].route = "negotiate"
    /\ negotiations' =
          { IF n.id = handlers[h].body.negotiationId
            THEN [ n EXCEPT !.finalEmail = "Subject: " \o handlers[h].body.subject
                                           \o "\n\n" \o handlers[h].body.body,
                            !.recipientEmail = handlers[h].body.recipientEmail,
                            !.status = "approved" ]
            ELSE n : n \in negotiations }
    /\ replyWith(h, "negotiate", 200)
    /\ UNCHANGED << storeVars, resolveIn, resolveOut, callIn, callOut, retryVars,
                    savings, outbox, handled >>

\* PUT /api/savings/update up to the first write: session, saving.findUnique
\* with its negotiation, ownership check
ConfirmSavingFind(h) ==
    /\ handlers[h].pc = "idle"
    /\ handled < MaxHandled
    /\ handled' = handled + 1
    /\ \E user \in Sessions, body \in SavingBodies :
          IF user = NULL THEN replyWith(h, "savings/update", 401)
          ELSE IF \A saving \in savings : saving.id # body.savingId
          THEN replyWith(h, "savings/update", 404)
          ELSE \E saving \in { x \in savings : x.id = body.savingId } :
                 IF findNegotiation(saving.negotiationId).userId # user
                 THEN replyWith(h, "savings/update", 404)
                 ELSE /\ handlers' = [ handlers EXCEPT ![h] =
                                         [ route |-> "savings/update", pc |-> "saving",
                                           userId |-> user, body |-> body,
                                           negotiationId |-> saving.negotiationId ] ]
                      /\ UNCHANGED reply
    /\ UNCHANGED << storeVars, resolveIn, resolveOut, callIn, callOut, retryVars,
                    negotiations, savings, outbox >>

\* prisma.saving.update
ConfirmSavingWrite(h) ==
    /\ handlers[h].pc = "saving"
    /\ handlers[h].route = "savings/update"
    /\ savings' = { IF saving.id = handlers[h].body.savingId
                    THEN [ saving EXCEPT !.confirmedAmount =
                                             handlers[h].body.confirmedAmount ]
                    ELSE saving : saving \in savings }
    /\ IF handlers[h].body.confirmedAmount > 0
       THEN handlers' = [ handlers EXCEPT ![h].pc = "close" ] /\ UNCHANGED reply
       ELSE replyWith(h, "savings/update", 200)
    /\ UNCHANGED << storeVars, resolveIn, resolveOut, callIn, callOut, retryVars,
                    negotiations, outbox, handled >>

\* prisma.negotiation.update({ data: { status: 'closed' } })
ConfirmSavingClose(h) ==
    /\ handlers[h].pc = "close"
    /\ negotiations' =
          { IF n.id = handlers[h].negotiationId THEN [ n EXCEPT !.status = "closed" ]
            ELSE n : n \in negotiations }
    /\ replyWith(h, "savings/update", 200)
    /\ UNCHANGED << storeVars, resolveIn, resolveOut, callIn, callOut, retryVars,
                    savings, outbox, handled >>

NextNegotiation ==
    \E h \in Handlers :
        \/ SendEmailStart(h)
        \/ SendEmailFind(h)
        \/ SendEmailSend(h)
        \/ SendEmailUpdate(h)
        \/ SendEmailSaving(h)
        \/ UpdateDraftFind(h)
        \/ UpdateDraftWrite(h)
        \/ ConfirmSavingFind(h)
        \/ ConfirmSavingWrite(h)
        \/ ConfirmSavingClose(h)

SpecNegotiation == InitNegotiation /\ [][NextNegotiation]_vars

\* ------------------------------------------------------------------------
\* Properties
\* ------------------------------------------------------------------------
rowsOf(id) == { r \in gmailMessages : r.gmailId = id }

\* the positions of a call inside createSubscriptionFromEmail
InStage2 == { "findByName", "findByDomain", "createVendor", "upsert", "mark" }

threeTables == << gmailMessages, vendors, subscriptions >>

\* C1, as the code has it: a scanInbox call that finds a GmailMessage row for
\* the listed ID skips it - skippedCount grows by one, the loop moves on
\* without fetching or extracting, and the GmailMessage, Vendor and
\* Subscription tables stay as they are; a call that finds a row for every ID
\* of its batch only skips and leaves the three tables unchanged.
C1_StoredIdIsSkipped ==
    [][\A s \in Scans :
         /\ ( /\ scan[s].pc = "check"
              /\ scan[s].idx <= Len(scan[s].batch)
              /\ rowsOf(scan[s].batch[scan[s].idx]) # {}
              /\ scan'[s] # scan[s] )
            => /\ scan'[s] = [scan[s] EXCEPT !.skippedCount = @ + 1, !.idx = @ + 1]
               /\ threeTables' = threeTables
               /\ stage2Runs' = stage2Runs
         /\ ( /\ scan[s].pc = "check"
              /\ scan[s].skippedCount = scan[s].idx - 1
              /\ \A i \in 1..Len(scan[s].batch) : rowsOf(scan[s].batch[i]) # {}
              /\ scan'[s] # scan[s] )
            => /\ scan'[s].pc \in { "check", "idle" }
               /\ scan'[s].newMessages = 0
               /\ threeTables' = threeTables
               /\ stage2Runs' = stage2Runs
      ]_vars

\* a second scan of a batch has skipped every message of it
C1_Witness ==
    \E s \in Scans :
        /\ scan[s].pc = "check"
        /\ Len(scan[s].batch) > 0
        /\ scan[s].skippedCount = Len(scan[s].batch)
        /\ \A i \in 1..Len(scan[s].batch) : rowsOf(scan[s].batch[i]) # {}

\* C1 as stated: a scan of a batch that an earlier scan of the same user went
\* through leaves the GmailMessage, Vendor and Subscription tables as they
\* were after the first scan.
C1_RescanChangesNothing ==
    [][\A s \in Scans :
         ( /\ scan[s].pc # "idle"
           /\ lastGmailSyncAt[scan[s].userId] # NULLNUM
           /\ scan'[s] # scan[s] )
         => threeTables' = threeTables
      ]_vars

\* C2: when two scanInbox calls interleave on one message ID, at most one of
\* them runs createSubscriptionFromEmail for it, and once a call is past
\* gmailMessage.create exactly one GmailMessage row carries the ID.
C2_OneProcessingPerMessage ==
    \A m \in MailIds :
        /\ stage2Runs[m] <= 1
        /\ Cardinality(rowsOf(m)) <= 1
        /\ stage2Runs[m] = 1 => Cardinality(rowsOf(m)) = 1
        /\ Cardinality({ s \in Scans : /\ scan[s].pc \in InStage2 \cup { "extract" }
                                       /\ scan[s].batch[scan[s].idx] = m }) <= 1

\* one call is inside createSubscriptionFromEmail for an ID while the other,
\* whose lookup missed the row, is about to create the row for the same ID
C2_Witness ==
    \E s, t \in Scans :
        /\ s # t
        /\ scan[s].pc \in InStage2
        /\ scan[t].pc = "fetch"
        /\ scan[t].batch[scan[t].idx] = scan[s].batch[scan[s].idx]
        /\ Cardinality(rowsOf(scan[s].batch[scan[s].idx])) = 1

allNull(extracted) ==
    \/ extracted = NO_EXTRACTION
    \/ /\ extracted # NO_EXTRACTION
       /\ extracted.amount = NULLNUM
       /\ extracted.renewal_date = NULL
       /\ extracted.plan = NULL

\* C3: when the extracted amount, renewal date and plan are all null,
\* createSubscriptionFromEmail leaves the Subscription table unchanged and
\* returns subscriptionCreated = false, whatever name and confidence it has.
C3_NoSubscriptionWithoutData ==
    [][\A s \in Scans :
         ( /\ scan[s].pc = "upsert"
           /\ allNull(scan[s].locals.extracted)
           /\ scan'[s] # scan[s] )
         => /\ subscriptions' = subscriptions
            /\ scan'[s].pc = "mark"
            /\ scan'[s].locals.subscriptionCreated = FALSE
      ]_vars

\* an extraction with a name and a confidence only has gone through the
\* validation
C3_Witness ==
    \E s \in Scans :
        /\ scan[s].pc = "mark"
        /\ scan[s].locals.extracted # NO_EXTRACTION
        /\ scan[s].locals.extracted.vendor_name = "Acme Corp"
        /\ scan[s].locals.extracted.confidence = "low"
        /\ allNull(scan[s].locals.extracted)
        /\ ~scan[s].locals.subscriptionCreated
        /\ \E v \in vendors : v.id = scan[s].locals.vendorId /\ v.name = "Acme Corp"

\* C4: every Subscription row has at least one of amount, renewalDate, plan
\* non-null.
C4_SomeSignal ==
    \A r \in subscriptions : r.amount # NULLNUM \/ r.renewalDate # NULL \/ r.plan # NULL

\* C5: there is at most one Subscription row per (userId, vendorId, source),
\* and a manual creation for a key that has a row leaves that row carrying
\* the fields of the request.
C5_OneRowUpdated ==
    /\ [](\A r, q \in subscriptions :
            (r.userId = q.userId /\ r.vendorId = q.vendorId /\ r.source = q.source)
            => r = q)
    /\ [][\A u \in Users, body \in CreateBodies :
            ( /\ validCreate(body)
              /\ \E v \in vendors : /\ v.normalizedName = vendorKey(body.vendorName)
                                    /\ subscriptionsOf(u, v.id, "manual") # {}
              /\ CreateSubscription(u, body, TRUE) )
            => \E r \in subscriptions' :
                  /\ r.userId = u
                  /\ r.source = "manual"
                  /\ r.billingCycle = body.billingCycle
                  /\ r.amount = body.amount
         ]_vars

\* C6: no two Vendor rows stand for the same normalized name, the lowercased
\* and whitespace-stripped name.
C6_OneVendorPerKey ==
    \A v, w \in vendors : vendorKey(v.name) = vendorKey(w.name) => v = w

firstRegistryMatch(subject) ==
    LET hits == { i \in DOMAIN SAAS_PATTERNS :
                    includes(toLowerCase(subject), SAAS_PATTERNS[i].pattern) }
    IN  SAAS_PATTERNS[minOf(hits)]

inTable(name) ==
    \E i \in DOMAIN KNOWN_SAAS_DOMAINS :
        toLowerCase(KNOWN_SAAS_DOMAINS[i].name) = toLowerCase(name)

\* C8, as the code has it: for an extracted name that is not blank, the
\* returned name is the extracted name itself unless the known-vendor table
\* holds the same name in another letter case; then the table's spelling is
\* returned, with the table's category.  Nothing but letter case changes.
C8_NameUpToCase ==
    ( /\ resolveOut # NO_CALL
      /\ resolveIn.llmVendorName # NULL
      /\ trim(resolveIn.llmVendorName) # "" )
    => /\ toLowerCase(resolveOut.name) = toLowerCase(resolveIn.llmVendorName)
       /\ ~inTable(resolveIn.llmVendorName)
             => /\ resolveOut.name = resolveIn.llmVendorName
                /\ resolveOut.category = NULL
       /\ inTable(resolveIn.llmVendorName)
             => \E i \in DOMAIN KNOWN_SAAS_DOMAINS :
                   /\ resolveOut.name = KNOWN_SAAS_DOMAINS[i].name
                   /\ resolveOut.category = KNOWN_SAAS_DOMAINS[i].category

\* the extracted name slack has come back in the table's spelling
C8_Witness ==
    /\ resolveOut # NO_CALL
    /\ resolveIn.llmVendorName = "slack"
    /\ resolveIn.senderDomain = "acme.io"
    /\ resolveOut.name = "Slack"

\* C8 as stated: for a non-empty extracted name the returned name is exactly
\* the extracted name.
C8_NameExact ==
    ( /\ resolveOut # NO_CALL
      /\ resolveIn.llmVendorName # NULL
      /\ resolveIn.llmVendorName # "" )
    => resolveOut.name = resolveIn.llmVendorName

senderDomainAt(s) == analysis[scan[s].batch[scan[s].idx]].stage1.senderDomain

\* C9: the lookup by sender domain is attempted only after the lookup by
\* normalized name found nothing and only for a sender domain outside the
\* denylist; a message from a denylisted domain is attached to an existing
\* Vendor only through that Vendor's normalized name.
C9_DomainLookupGuarded ==
    \A s \in Scans :
        /\ scan[s].pc = "findByDomain"
              => /\ senderDomainAt(s) \notin GENERIC_EMAIL_DOMAINS
                 /\ ~\E v \in vendors :
                        v.normalizedName = vendorKey(scan[s].locals.vendorName)
        /\ (scan[s].pc \in { "upsert", "mark" } /\ scan[s].locals.foundBy = "domain")
              => senderDomainAt(s) \notin GENERIC_EMAIL_DOMAINS
        /\ ( /\ scan[s].pc \in { "upsert", "mark" }
             /\ senderDomainAt(s) \in GENERIC_EMAIL_DOMAINS
             /\ ~scan[s].locals.vendorCreated )
              => \E v \in vendors :
                    /\ v.id = scan[s].locals.vendorId
                    /\ v.normalizedName = vendorKey(scan[s].locals.vendorName)

\* a message from gmail.com has got a Vendor of its own while a Vendor with
\* the domain gmail.com was in the table
C9_Witness ==
    \E s \in Scans :
        /\ scan[s].pc \in { "upsert", "mark" }
        /\ senderDomainAt(s) = "gmail.com"
        /\ scan[s].locals.vendorCreated
        /\ \E v \in vendors : v.domain = "gmail.com" /\ v.id # scan[s].locals.vendorId

\* C10: when the provider call throws or its response cannot be parsed,
\* extractSubscriptionFromEmail returns what the regex fallback returns on
\* (subject, body); when that is null too, the GmailMessage row stays and no
\* Subscription is created or updated for the message.
C10_FallbackOnFailure ==
    \A s \in Scans :
        (scan[s].pc \in InStage2 /\ scan[s].locals.llm = LLM_FAILURE)
        => LET id == scan[s].batch[scan[s].idx]
           IN  /\ scan[s].locals.extracted = analysis[id].regexResult
               /\ analysis[id].regexResult = NO_EXTRACTION
                     => /\ rowsOf(id) # {}
                        /\ ~scan[s].locals.subscriptionCreated
                        /\ ~\E r \in subscriptions : r.gmailMessageId = id

\* the provider failed, the fallback found nothing, and the message has gone
\* through the validation
C10_Witness ==
    \E s \in Scans :
        /\ scan[s].pc = "mark"
        /\ scan[s].locals.llm = LLM_FAILURE
        /\ scan[s].locals.extracted = NO_EXTRACTION
        /\ rowsOf(scan[s].batch[scan[s].idx]) # {}

\* the extractWithRegex call that has returned, and the texts it searched
regexReturned == callOut # NO_CALL /\ callIn.fn = "extractWithRegex"

regexText == orElse(callIn.subject, "") \o " " \o orElse(callIn.body, "")

regexBody == orElse(callIn.body, "")

\* C11: in the record the regex fallback extractor returns, each of
\* vendor_name, plan, seats, billing_cycle, renewal_date, amount and currency
\* is non-null only if its pattern matched a value in the email text
C11_NullOverGuess ==
    ( regexReturned /\ callOut.returned # NO_EXTRACTION ) =>
        LET r == callOut.returned
        IN  /\ r.vendor_name # NULL =>
                  /\ callIn.subject # NULL
                  /\ matchSubjectVendor(callIn.subject) # NULL
            /\ r.plan # NULL => matchPlan(regexBody) # NULL
            /\ r.seats # NULLNUM => matchSeats(regexText) # NULLNUM
            /\ r.billing_cycle # NULL => matchBillingCycle(regexText) # NULL
            /\ r.renewal_date # NULL =>
                  \E n \in 1..4 : dateStrings(regexBody)[n] # NULL
            /\ r.amount # NULLNUM => amountPatternMatch(regexText) # NULLREC
            /\ r.currency # NULL =>
                  /\ amountPatternMatch(regexText) # NULLREC
                  /\ amountPatternMatch(regexText).code # NULL

\* the tokens of the two billing-cycle tests
hasMonthlyToken(text) ==
    \E t \in { "monthly", "per month", "/month" } : testIgnoreCase(text, t)

hasYearlyToken(text) ==
    \E t \in { "yearly", "annual", "per year", "/year" } : testIgnoreCase(text, t)

\* C12: in a record of the regex fallback extractor, billing_cycle is yearly
\* when the text holds a yearly token (also next to a monthly token), monthly
\* when it holds only a monthly token, and null when it holds neither
C12_YearlyWins ==
    ( regexReturned /\ callOut.returned # NO_EXTRACTION ) =>
        callOut.returned.billing_cycle =
            IF hasYearlyToken(regexText) THEN "yearly"
            ELSE IF hasMonthlyToken(regexText) THEN "monthly"
            ELSE NULL

\* the values the patterns of the regex fallback extractor found in the call's
\* text: null or NULLNUM where the pattern did not match
regexFound ==
    [ vendor_name |-> IF callIn.subject = NULL THEN NULL
                      ELSE matchSubjectVendor(callIn.subject),
      plan |-> matchPlan(regexBody),
      seats |-> matchSeats(regexText),
      billing_cycle |-> matchBillingCycle(regexText),
      renewal_date |-> matchRenewalDate(regexBody, tzEast),
      amount |-> matchAmount(regexText).amount ]

\* C13 as amended: the regex fallback extractor returns null exactly when it
\* found no vendor name, no plan, no renewal date, and neither a seats count
\* nor an amount other than zero; a billing cycle alone makes no record
C13_NullIffNoMeaningfulField ==
    regexReturned =>
        ( callOut.returned = NO_EXTRACTION
          <=> /\ regexFound.vendor_name \in { NULL, "" }
              /\ regexFound.plan \in { NULL, "" }
              /\ regexFound.renewal_date = NULL
              /\ regexFound.seats \in { NULLNUM, NAN, 0 }
              /\ regexFound.amount \in { NULLNUM, NAN, 0 } )

\* a text whose only match is a billing-cycle token gives null
C13_Witness ==
    /\ regexReturned
    /\ callIn.subject = NULL
    /\ callIn.body = "Billed monthly"
    /\ regexFound.billing_cycle = "monthly"
    /\ callOut.returned = NO_EXTRACTION

\* C13: the regex fallback extractor returns null when none of its field
\* patterns matches the text, and a record whenever at least one field was
\* found
C13_NullIffNothingFound ==
    regexReturned =>
        ( callOut.returned = NO_EXTRACTION
          <=> /\ regexFound.vendor_name = NULL
              /\ regexFound.plan = NULL
              /\ regexFound.renewal_date = NULL
              /\ regexFound.seats = NULLNUM
              /\ regexFound.billing_cycle = NULL
              /\ amountPatternMatch(regexText) = NULLREC )

frequencyReturned == callOut # NO_CALL /\ callIn.fn = "detectFrequency"

\* the days of a detectFrequency call, as a set
daysOfCall == { getTimeDays(callIn.dates[i]) : i \in 1..Len(callIn.dates) }

\* the rearrangements of the dates of the call
reorderings ==
    { [i \in 1..Len(callIn.dates) |-> callIn.dates[p[i]]] :
        p \in { q \in [1..Len(callIn.dates) -> 1..Len(callIn.dates)] :
                  \A i, j \in 1..Len(callIn.dates) : q[i] = q[j] => i = j } }

\* C14: detectFrequency returns monthly for fewer than 2 dates; for n >= 2
\* dates it classifies the mean gap between chronologically consecutive
\* dates, (latest - earliest) / (n - 1) days, as monthly up to 45, quarterly
\* up to 120, annual up to 400 and one-time above, whatever the order of the
\* dates passed
C14_MeanGapClasses ==
    frequencyReturned =>
        LET n == Len(callIn.dates)
            span == maxOf(daysOfCall) - minOf(daysOfCall)
        IN  /\ n < 2 => callOut.returned = "monthly"
            /\ n >= 2 =>
                  /\ span <= 45 * (n - 1) => callOut.returned = "monthly"
                  /\ ( 45 * (n - 1) < span /\ span <= 120 * (n - 1) )
                        => callOut.returned = "quarterly"
                  /\ ( 120 * (n - 1) < span /\ span <= 400 * (n - 1) )
                        => callOut.returned = "annual"
                  /\ span > 400 * (n - 1) => callOut.returned = "one-time"
            /\ \A other \in reorderings : detectFrequency(other) = callOut.returned

\* three dates passed out of order: gaps of 30 and 70 days, mean 50
C14_Witness ==
    /\ frequencyReturned
    /\ callIn.dates = << "2024-04-24", "2024-01-15", "2024-02-14" >>
    /\ callOut.returned = "quarterly"

renewalReturned == callOut # NO_CALL /\ callIn.fn = "calculateRenewalDate"

RECURSIVE yearsAfter(_, _)
\* t moved forward by k steps of one year
yearsAfter(t, k) == IF k = 0 THEN t ELSE addYear(yearsAfter(t, k - 1))

\* the date the annual branch starts from, 11 months on
annualBase ==
    addMonths(IF callIn.firstTransactionDate # NULL THEN callIn.firstTransactionDate
              ELSE callIn.lastTransactionDate, 11)

\* C15: for frequency annual calculateRenewalDate returns first + 11 months
\* rolled forward by k whole years for the smallest k >= 0 that makes the
\* result >= now, so first + 11 months itself when that is not before now;
\* without a first date the same holds from the last transaction date
C15_AnnualElevenMonths ==
    ( renewalReturned /\ callIn.frequency = "annual" ) =>
        LET now == getTimeHalves(callIn.now)
            most == IF isBefore(annualBase, now)
                    THEN (now - 2 * getTimeDays(annualBase)) \div (2 * 365) + 1
                    ELSE 0
        IN  /\ ~isBefore(annualBase, now) => callOut.returned = annualBase
            /\ \E k \in 0..most :
                  /\ callOut.returned = yearsAfter(annualBase, k)
                  /\ ~isBefore(callOut.returned, now)
                  /\ \A j \in 0..(k - 1) : isBefore(yearsAfter(annualBase, j), now)

\* first = 2024-01-15 and no renewal passed yet: 2024-12-15
C15_Witness ==
    /\ renewalReturned
    /\ callIn.frequency = "annual"
    /\ callIn.firstTransactionDate = "2024-01-15"
    /\ callIn.now = [day |-> "2024-02-15", half |-> 0]
    /\ callOut.returned = "2024-12-15"

RECURSIVE stepsAfter(_, _, _)
\* t moved forward by k steps of n months
stepsAfter(t, n, k) ==
    IF k = 0 THEN t
    ELSE CHOOSE r \in { stepsAfter(u, n, k - 1) : u \in { addMonths(t, n) } } : TRUE

\* C16: for monthly (steps of 1 month) and quarterly (steps of 3 months)
\* calculateRenewalDate returns lastDate moved forward by k steps for the
\* smallest k >= 1 whose result is >= now: the result is never before now,
\* the step before it (when k > 1) is before now, and k is bounded, every
\* step being at least 28 days per month; for one-time the result is
\* lastDate itself, also when lastDate is before now
C16_WholeSteps ==
    renewalReturned =>
        LET now == getTimeHalves(callIn.now)
            lastDate == callIn.lastTransactionDate
            n == IF callIn.frequency = "monthly" THEN 1 ELSE 3
            most == IF isBefore(lastDate, now)
                    THEN (now - 2 * getTimeDays(lastDate)) \div (2 * 28 * n) + 1
                    ELSE 1
        IN  /\ callIn.frequency \in { "monthly", "quarterly" } =>
                  /\ ~isBefore(callOut.returned, now)
                  /\ \E k \in 1..most :
                        /\ callOut.returned = stepsAfter(lastDate, n, k)
                        /\ \A j \in 1..(k - 1) : isBefore(stepsAfter(lastDate, n, j), now)
            /\ callIn.frequency = "one-time" => callOut.returned = lastDate

\* a lastDate 16 months old, monthly: the first monthly step not before now
C16_Witness ==
    /\ renewalReturned
    /\ callIn.frequency = "monthly"
    /\ callIn.lastTransactionDate = "2024-01-15"
    /\ callIn.now = [day |-> "2025-06-01", half |-> 1]
    /\ callOut.returned = "2025-06-15"

renewalInfoCalled == callOut # NO_CALL /\ callIn.fn = "getRenewalInfo"

\* C17 as amended: getRenewalInfo called with an empty list of dates throws
\* an Error with the message "At least one transaction date is required"
\* and returns no RenewalInfo; called with a non-empty list it returns a
\* RenewalInfo whose isUrgent is true exactly when 0 < daysUntilRenewal <= 30
C17_ErrorOnEmptyUrgentWithin30 ==
    renewalInfoCalled =>
        /\ callIn.transactionDates = << >> =>
              /\ DOMAIN callOut = { "thrown" }
              /\ callOut.thrown.name = "Error"
              /\ callOut.thrown.message = "At least one transaction date is required"
        /\ callIn.transactionDates # << >> =>
              /\ DOMAIN callOut = { "returned" }
              /\ DOMAIN callOut.returned =
                     { "frequency", "renewalDate", "daysUntilRenewal", "isUrgent" }
              /\ callOut.returned.isUrgent
                     <=> ( 0 < callOut.returned.daysUntilRenewal
                           /\ callOut.returned.daysUntilRenewal <= 30 )

\* a one-time payment in the past: daysUntilRenewal is negative, not urgent
C17_Witness ==
    /\ renewalInfoCalled
    /\ callIn.transactionDates = << "2024-11-15" >>
    /\ callIn.frequency = "one-time"
    /\ callIn.now = [day |-> "2024-12-15", half |-> 0]
    /\ callOut.returned.daysUntilRenewal = 0 - 30
    /\ ~callOut.returned.isUrgent

\* C17: getRenewalInfo called with an empty list of dates throws a
\* NoTransactionsError and returns no RenewalInfo; called with a non-empty
\* list it returns a RenewalInfo whose isUrgent is true exactly when
\* 0 < daysUntilRenewal <= 30
C17_NoTransactionsError ==
    renewalInfoCalled =>
        /\ callIn.transactionDates = << >> =>
              /\ DOMAIN callOut = { "thrown" }
              /\ callOut.thrown.name = "NoTransactionsError"
        /\ callIn.transactionDates # << >> =>
              /\ DOMAIN callOut = { "returned" }
              /\ callOut.returned.isUrgent
                     <=> ( 0 < callOut.returned.daysUntilRenewal
                           /\ callOut.returned.daysUntilRenewal <= 30 )

\* the Subscription rows a detection by call s is about
detectedRows(s) == subscriptionsOf(scan[s].userId, scan[s].locals.vendorId, "gmail")

\* call s is at subscription.upsert, past the validation, and the row exists
repeatedDetection(s) ==
    /\ scan[s].pc = "upsert"
    /\ detectedRows(s) # {}
    /\ \/ numOrNull(scan[s].locals.extracted, "amount") \notin { NULLNUM, NAN, 0 }
       \/ renewalDateOf(scan[s].locals.extracted, tzEast) # NULL
       \/ fieldOr(scan[s].locals.extracted, "plan", NULL) \notin { NULL, "" }

\* C18: a repeated Gmail detection for an existing (user, vendor, gmail)
\* Subscription updates that row in place: the table keeps its number of
\* rows and every other row, lastDetectedAt of the row becomes the time of
\* the detection, later than the one stored, and each of renewalDate, amount,
\* billingCycle, plan and seats that the new extraction left null keeps the
\* value stored before
C18_UpdatedInPlace ==
    [][ \A s \in Scans :
          ( repeatedDetection(s) /\ Upsert(s) ) =>
              LET e == scan[s].locals.extracted
              IN  /\ Cardinality(subscriptions') = Cardinality(subscriptions)
                  /\ subscriptions \ detectedRows(s) \subseteq subscriptions'
                  /\ \A r \in detectedRows(s) :
                        \E q \in subscriptions' :
                          /\ q.id = r.id
                          /\ q.userId = r.userId
                          /\ q.vendorId = r.vendorId
                          /\ q.source = r.source
                          /\ q.lastDetectedAt = clock
                          /\ q.lastDetectedAt > r.lastDetectedAt
                          /\ renewalDateOf(e, tzEast) = NULL => q.renewalDate = r.renewalDate
                          /\ numOrNull(e, "amount") = NULLNUM => q.amount = r.amount
                          /\ fieldOr(e, "billing_cycle", NULL) = NULL
                                => q.billingCycle = r.billingCycle
                          /\ fieldOr(e, "plan", NULL) = NULL => q.plan = r.plan
                          /\ numOrNull(e, "seats") = NULLNUM => q.seats = r.seats
      ]_vars

\* the Figma row after the detection by message m2, whose extraction has an
\* amount and a billing cycle but no plan and no valid renewal date
C18_Witness ==
    /\ Cardinality(subscriptions) = 2
    /\ \E q \in subscriptions :
          /\ q.id = 2
          /\ q.gmailMessageId = "m2"
          /\ q.lastDetectedAt > 2
          /\ q.billingCycle = "yearly"
          /\ q.plan = "Team"
          /\ q.renewalDate = "2025-06-01"

csvReturned == callOut # NO_CALL /\ callIn.fn = "parseCSV"

\* some header of the call's file contains one of the candidates
hasColumn(candidates) ==
    \E i \in 1..Len(callIn.fields), c \in 1..Len(candidates) :
        includes(toLowerCase(callIn.fields[i]), candidates[c])

\* a required column is missing from the headers
columnMissing ==
    \/ ~hasColumn(DATE_COLUMNS)
    \/ ~hasColumn(DESCRIPTION_COLUMNS) /\ ~hasColumn(VENDOR_COLUMNS)
    \/ ~hasColumn(AMOUNT_COLUMNS)

\* C19: parseCSV on a file whose headers hold no date column, or neither a
\* description nor a vendor column, or no amount column, returns no
\* transaction, saasCount 0 and a non-empty errors list, whatever the other
\* columns and the rows hold; no row is processed, so the errors are those
\* of Papa.parse followed by the one naming the missing column
C19_MissingColumnIsFatal ==
    ( csvReturned /\ columnMissing ) =>
        /\ callOut.returned.transactions = << >>
        /\ callOut.returned.saasCount = 0
        /\ callOut.returned.errors # << >>
        /\ Len(callOut.returned.errors) = callIn.errors + 1
        /\ \A k \in 1..callIn.errors : callOut.returned.errors[k] = papaErrors(callIn.errors)[k]
        /\ callOut.returned.errors[callIn.errors + 1].message \in
              { "Could not find date column",
                "Could not find description or vendor column",
                "Could not find amount column" }

\* a file with paid rows, a description and an amount column but no date column
C19_Witness ==
    /\ csvReturned
    /\ callIn.fields = << "Memo", "Debit Amount", "Class" >>
    /\ callIn.rows = "paid"
    /\ callIn.errors = 0
    /\ callOut.returned.transactions = << >>
    /\ callOut.returned.errors = << [row |-> NULLNUM, message |-> "Could not find date column"] >>

\* the rows of the call's file whose date does not parse
invalidRows == { k \in 1..Len(CsvRows[callIn.rows]) : CsvRows[callIn.rows][k].date = "soon" }

\* the j-th error recorded when the file has its columns: the errors of
\* Papa.parse, then one per row with an invalid date, in row order
recordedError(j) ==
    IF j <= callIn.errors THEN papaErrors(callIn.errors)[j]
    ELSE [ row |-> 1 + CHOOSE k \in invalidRows :
                         Cardinality({ x \in invalidRows : x <= k }) = j - callIn.errors,
           message |-> "Invalid date" ]

\* C20: the errors list parseCSV returns never has more than 10 entries, on
\* every return path and for any number of malformed rows; when more than 10
\* errors were recorded the first 10 in recording order are the ones returned
C20_AtMostTenErrors ==
    csvReturned =>
        /\ Len(callOut.returned.errors) <= 10
        /\ ~columnMissing =>
              /\ Len(callOut.returned.errors) =
                     IF callIn.errors + Cardinality(invalidRows) > 10 THEN 10
                     ELSE callIn.errors + Cardinality(invalidRows)
              /\ \A j \in 1..Len(callOut.returned.errors) :
                     callOut.returned.errors[j] = recordedError(j)

\* a parseAmount call has returned
amountReturned == callIn.fn = "parseAmount" /\ callOut # NO_CALL

\* the rows of the call's file with a valid date whose amount is not 0
chargedRows ==
    { k \in 1..Len(CsvRows[callIn.rows]) :
        /\ CsvRows[callIn.rows][k].date # "soon"
        /\ parseAmount(CsvRows[callIn.rows][k].amount) # 0 }

\* C21: every ParsedTransaction parseCSV returns has a valid date and an
\* amount strictly greater than 0; a row whose date does not parse is rejected
\* with one row error, a row whose amount resolves to 0 is skipped without an
\* error, and parseAmount never returns a negative number
C21_ValidDatePositiveAmount ==
    /\ csvReturned =>
          \A k \in 1..Len(callOut.returned.transactions) :
              /\ callOut.returned.transactions[k].date # NULL
              /\ callOut.returned.transactions[k].amount > 0
    /\ ( csvReturned /\ ~columnMissing /\ callIn.errors = 0 ) =>
          /\ Len(callOut.returned.transactions) = Cardinality(chargedRows)
          /\ Len(callOut.returned.errors) =
                 IF Cardinality(invalidRows) > 10 THEN 10 ELSE Cardinality(invalidRows)
          /\ \A j \in 1..Len(callOut.returned.errors) :
                 /\ callOut.returned.errors[j].message = "Invalid date"
                 /\ callOut.returned.errors[j].row - 1 \in invalidRows
    /\ amountReturned => callOut.returned >= 0

\* a calculateVendorSummaries call has returned
summariesReturned == callIn.fn = "calculateVendorSummaries" /\ callOut # NO_CALL

\* the positions of the call's transactions that belong to a vendor
groupOf(name) ==
    { i \in 1..Len(callIn.transactions) :
        callIn.transactions[i].normalizedVendorName = name }

RECURSIVE amountsFrom(_, _)
\* the amounts of the vendor's transactions from position i on, added up
amountsFrom(name, i) ==
    IF i > Len(callIn.transactions) THEN 0
    ELSE (IF i \in groupOf(name) THEN callIn.transactions[i].amount ELSE 0)
         + amountsFrom(name, i + 1)

RECURSIVE countsFrom(_)
\* the transactionCounts of the summaries from position k on, added up
countsFrom(k) ==
    IF k > Len(callOut.returned) THEN 0
    ELSE callOut.returned[k].transactionCount + countsFrom(k + 1)

\* C22: calculateVendorSummaries returns exactly one summary per distinct
\* normalizedVendorName; its transactionCount and totalAmount are the count and
\* the sum of the group, the counts add up to the input length, firstDate and
\* lastDate are the earliest and latest date of the group, isSaaS is true
\* exactly when a transaction of the group is SaaS, and the output is ordered
\* by totalAmount, largest first
C22_OneSummaryPerVendor ==
    summariesReturned =>
        /\ Len(callOut.returned) =
               Cardinality({ callIn.transactions[i].normalizedVendorName :
                               i \in 1..Len(callIn.transactions) })
        /\ \A i \in 1..Len(callIn.transactions) :
               \E k \in 1..Len(callOut.returned) :
                   callOut.returned[k].normalizedName =
                       callIn.transactions[i].normalizedVendorName
        /\ \A k \in 1..Len(callOut.returned) :
               \E group \in { groupOf(callOut.returned[k].normalizedName) } :
                   /\ group # {}
                   /\ callOut.returned[k].transactionCount = Cardinality(group)
                   /\ callOut.returned[k].totalAmount =
                          amountsFrom(callOut.returned[k].normalizedName, 1)
                   /\ \E i \in group :
                          callOut.returned[k].firstDate = callIn.transactions[i].date
                   /\ \E i \in group :
                          callOut.returned[k].lastDate = callIn.transactions[i].date
                   /\ \A i \in group :
                          /\ getTimeDays(callOut.returned[k].firstDate)
                                 <= getTimeDays(callIn.transactions[i].date)
                          /\ getTimeDays(callIn.transactions[i].date)
                                 <= getTimeDays(callOut.returned[k].lastDate)
                   /\ callOut.returned[k].isSaaS =
                          ( \E i \in group : callIn.transactions[i].isSaaS )
        /\ countsFrom(1) = Len(callIn.transactions)
        /\ \A k \in 1..(Len(callOut.returned) - 1) :
               callOut.returned[k].totalAmount >= callOut.returned[k + 1].totalAmount

\* three transactions, the vendor met first spends less: its summary comes
\* second; the other vendor's group has one SaaS transaction out of two
C22_Witness ==
    /\ summariesReturned
    /\ Len(callIn.transactions) = 3
    /\ callIn.transactions[1].normalizedVendorName = "acme corp"
    /\ callIn.transactions[2].normalizedVendorName = "slack"
    /\ callIn.transactions[3].normalizedVendorName = "slack"
    /\ callIn.transactions[2].isSaaS /\ ~callIn.transactions[3].isSaaS
    /\ callIn.transactions[2].date = "2026-02-05"
    /\ callIn.transactions[3].date = "2026-01-05"
    /\ Len(callOut.returned) = 2
    /\ callOut.returned[1].normalizedName = "slack"
    /\ callOut.returned[1].isSaaS
    /\ callOut.returned[1].firstDate = "2026-01-05"
    /\ callOut.returned[1].lastDate = "2026-02-05"
    /\ callOut.returned[1].totalAmount > callOut.returned[2].totalAmount

\* a classifyVendor call has returned
classifyReturned == callIn.fn = "classifyVendor" /\ callOut # NO_CALL

\* the Vendor records of the name the call classifies
recordsOfName ==
    { row \in callIn.table : toLowerCase(row.name) = trim(toLowerCase(callIn.vendorName)) }

\* the name contains an entry of a curated list
listed(list) ==
    \E i \in 1..Len(list) : includes(trim(toLowerCase(callIn.vendorName)), list[i])

\* C23: classifyVendor returns the vendorType stored on the Vendor record of
\* that name, whatever the lists say; else FIXED_PLAN when the lowercased name
\* contains an entry of the FIXED_PLAN list; else NEGOTIABLE.  Without a stored
\* vendorType it agrees with classifyVendorSync, and an error of the lookup
\* falls through to the lists
C23_StoredTypeThenLists ==
    classifyReturned =>
        /\ \A row \in recordsOfName :
               ( row.vendorType # NULL /\ "returned" \in DOMAIN callOut.vendor )
                   => callOut.returned = row.vendorType
        /\ ( \A row \in recordsOfName : row.vendorType = NULL ) =>
               /\ callOut.returned =
                      IF listed(DEFAULT_FIXED_PLAN_VENDORS) THEN "FIXED_PLAN" ELSE "NEGOTIABLE"
               /\ callOut.returned = classifyVendorSync(callIn.vendorName, callIn.category)
        /\ "thrown" \in DOMAIN callOut.vendor =>
               callOut.returned =
                   IF listed(DEFAULT_FIXED_PLAN_VENDORS) THEN "FIXED_PLAN" ELSE "NEGOTIABLE"

\* the withRetry call is over
retryOver == retry.pc \in { "returned", "threw" }

\* an error whose message mentions 401, 403 or an invalid request
mentionsFatal(error) ==
    /\ error # NULLREC
    /\ error.instance \in { "TypeError", "Error" }
    /\ \E marker \in { "401", "403", "invalid" } :
          includes(toLowerCase(error.message), marker)

\* the call runs under withLLMRetry or withGmailRetry
underWrapper == "retryableErrors" \in DOMAIN retry.config

\* C24: withRetry terminates and calls the wrapped function at most
\* maxAttempts times; it returns the first successful result without further
\* calls, rethrows a non-retryable error right after the call that threw it,
\* without a sleep, and after maxAttempts retryable failures throws the error
\* of the last attempt.  Under withLLMRetry and withGmailRetry an error that
\* mentions 401, 403 or an invalid request is never retried, whatever
\* retryable marker its message holds as well
C24_BoundedAttempts ==
    /\ [] ( /\ retry.calls <= retry.config.maxAttempts
            /\ retry.pc = "returned" =>
                   /\ retry.calls = retry.attempt
                   /\ retry.sleeps = retry.calls - 1
            /\ ( retry.pc = "threw" /\ retry.calls > 0 ) =>
                   /\ retry.outcome.thrown = retry.lastError
                   /\ retry.sleeps = retry.calls - 1
                   /\ shouldRetry(retry.config, retry.lastError) =>
                          retry.calls = retry.config.maxAttempts
            /\ ( underWrapper /\ mentionsFatal(retry.lastError) ) =>
                   /\ retry.pc = "threw"
                   /\ retry.outcome.thrown = retry.lastError )
    /\ [][ retryOver => retry' = retry ]_vars
    /\ <> retryOver

\* the capped exponential delay of the attempt that was slept after, in
\* sixteenths of a millisecond
cappedExponential ==
    IF retry.config.initialDelayMs * pow(retry.config.backoffMultiplier, retry.calls - 1)
          < retry.config.maxDelayMs
    THEN 16 * retry.config.initialDelayMs * pow(retry.config.backoffMultiplier, retry.calls - 1)
    ELSE 16 * retry.config.maxDelayMs

\* C25: the delay slept before attempt n + 1 is at least the exponential
\* value initialDelayMs * backoffMultiplier^(n - 1) capped at maxDelayMs, and
\* never more than maxDelayMs, for every attempt and every jitter
C25_DelayWithinCap ==
    retry.pc = "sleeping" =>
        /\ retry.delay >= cappedExponential
        /\ retry.delay <= 16 * retry.config.maxDelayMs

\* a step in which POST /api/send-email answers with an error status
sendRejected ==
    /\ reply' # NO_CALL
    /\ reply'.route = "send-email"
    /\ reply'.status # 200
    /\ \E h \in DOMAIN handlers :
          /\ handlers'[h].pc = "idle"
          /\ \/ handlers[h].pc = "idle" /\ handled' # handled
             \/ handlers[h].pc \in { "find", "send" } /\ handlers[h].route = "send-email"

\* the mails of the outbox sent for negotiation id
mailsOf(id) == { i \in 1..Len(outbox) : outbox[i].negotiationId = id }

\* C26: POST /api/send-email reaches the mail sender only for a request with
\* approved = true, a valid recipient address and a negotiation that exists
\* and belongs to the requesting user; a rejected request sends nothing and
\* leaves the negotiations as they were.
C26_SentOnlyWhenApproved ==
    /\ [](\A i \in 1..Len(outbox) :
            /\ outbox[i].approved = "true"
            /\ isValidEmail(outbox[i].to)
            /\ \E n \in negotiations :
                  n.id = outbox[i].negotiationId /\ n.userId = outbox[i].userId)
    /\ [][sendRejected => outbox' = outbox /\ negotiations' = negotiations]_vars

\* C29: a negotiation's email reaches the mail sender at most once, and once
\* a negotiation has been sent no step changes its finalEmail or
\* recipientEmail or sets its status back to approved.
C29_SentAtMostOnce ==
    /\ [](\A n \in negotiations : Cardinality(mailsOf(n.id)) <= 1)
    /\ [][\A n \in negotiations :
            n.sentAt # NULLNUM =>
                \E m \in negotiations' :
                    /\ m.id = n.id
                    /\ m.finalEmail = n.finalEmail
                    /\ m.recipientEmail = n.recipientEmail
                    /\ m.status # "approved"]_vars


\* a scanInbox call is inside processNewMessage
inMessage(s) == scan[s].pc \notin { "idle", "check" }

\* C27: a failure while one message of a scanInbox batch is handled does not
\* end the batch: processNewMessage always returns to the loop, which goes
\* on with the next reference, every reference is counted as skipped or new,
\* and the call ends by returning its summary.
C27_FailureKeepsBatch ==
    /\ [](\A s \in Scans :
            /\ scan[s].pc = "check" =>
                  scan[s].newMessages + scan[s].skippedCount = scan[s].idx - 1
            /\ result[s] # NULLREC =>
                  result[s].newMessages + result[s].skippedCount
                      = result[s].messagesScanned)
    /\ [][\A s \in Scans :
            inMessage(s) =>
                /\ scan'[s].pc # "idle"
                /\ scan'[s].batch = scan[s].batch
                /\ scan'[s].pc = "check" => scan'[s].idx = scan[s].idx + 1]_vars
    /\ \A s \in Scans : (scan[s].pc # "idle") ~> (scan[s].pc = "idle")

\* a scan of u2's inbox returned its summary although Stage 2 failed for
\* m3: the later references m4 and m5 were stored all the same
C27_Witness ==
    /\ idle
    /\ result[1] # NULLREC
    /\ result[1].messagesScanned = 3
    /\ result[1].newMessages = 3
    /\ \E r \in gmailMessages : r.gmailId = "m3" /\ ~r.isProcessed
    /\ stored("m4")
    /\ stored("m5")

\* Stage 1 found message m subscription-related, with a sender domain
subscriptionRelated(m) ==
    analysis[m].stage1.isSubscription /\ truthy(analysis[m].stage1.senderDomain)

processed(m) == \E r \in gmailMessages : r.gmailId = m /\ r.isProcessed

\* C28: a stored message that Stage 1 found subscription-related and that
\* has a sender domain is eventually stored with isProcessed = true; a
\* message found not subscription-related never reaches Stage 2 and is never
\* marked processed.
C28_EventuallyProcessed ==
    /\ \A m \in MailIds : [](stored(m) /\ subscriptionRelated(m) => <>processed(m))
    /\ [](\A m \in MailIds :
            ~analysis[m].stage1.isSubscription =>
                stage2Runs[m] = 0 /\ ~processed(m))


\* a normalizeVendorName call has returned
normalizeReturned == callIn.fn = "normalizeVendorName" /\ callOut # NO_CALL

\* C30: normalizeVendorName is idempotent, and what it returns has no
\* leading or trailing whitespace, no run of two or more whitespace
\* characters and no upper-case letter.
C30_NormalizeIdempotent ==
    normalizeReturned =>
        /\ callOut.again = callOut.returned
        /\ trim(callOut.returned) = callOut.returned
        /\ ~includes(callOut.returned, "  ")
        /\ toLowerCase(callOut.returned) = callOut.returned


====
